---- MODULE Spec2Model ----
(***************************************************************************)
(* Verification model of the multi-camera inference service (kvs_infer).   *)
(*                                                                         *)
(*   SpecFS   the HLS frame source of one camera (frame_source/kvs_hls.py) *)
(*            driven by a single caller, with a virtual clock;             *)
(*   SpecPub  the Kinesis publisher (publisher/kds.py) called from several *)
(*            threads, one interpreter step at a time;                     *)
(*   SpecApp  the supervisor and its camera workers (app.py).              *)
(***************************************************************************)
EXTENDS Integers, Sequences, FiniteSets, TLC

VARIABLES
    \* ---- frame source (SpecFS) ----
    fs,          \* the fields of one KVSHLSFrameSource
    now,         \* the clock read by time.time(), in seconds
    last,        \* what the latest read_frame call did (observation only)
    fail_streak, \* read_frame calls since the last one that returned a frame
    fatal_seen,  \* a read_frame call has raised FrameSourceError
    stop_called  \* stop() or release() has been called since the last start()

fsVars == <<fs, now, last, fail_streak, fatal_seen, stop_called>>

VARIABLES
    \* ---- event-stream publisher (SpecPub) ----
    kds_buffer,   \* KDSClient._batch_buffer
    kds_metrics,  \* KDSClient.metrics
    kds_cfg,      \* the client's batch_size and max_retries, and the service
    kds_calls,    \* every put_records call, in order: its Records, its answer
    pe,           \* the put_events call in progress
    kds_accepted, \* the events put_event has appended to the buffer
    t_pc,         \* where each calling thread is inside put_event / flush
    t_batch,      \* each thread's local variable batch in flush
    t_puts,       \* put_event calls each thread has made
    t_flushes     \* direct flush calls each thread has made

pubVars == <<kds_cfg, pe, kds_buffer, kds_metrics, kds_calls, kds_accepted,
             t_pc, t_batch, t_puts, t_flushes>>

VARIABLES
    \* ---- supervisor (SpecApp): the main thread ----
    cfg,                \* what the file named by --config holds
    main_pc,            \* where the main thread is in main() / Application.run()
    exit_code,          \* the status the process exited with
    handlers_installed, \* setup_signal_handlers has registered the handlers
    signals,            \* the signals delivered so far
    publishers,         \* the keys of Application.publishers
    sw_i,               \* start_workers: index of the camera being started
    sw_started,         \* start_workers: worker.start() done, append pending
    workers,            \* Application.workers
    \* ---- supervisor: Application.shutdown ----
    shutdown_event,     \* Application.shutdown_event
    shutdown_done,      \* the shutdown() call that set the event has returned
    sd_pc,              \* where that call is
    sd_from,            \* who made it: the signal handler or run()'s except
    sd_i,               \* its position in self.workers
    flush_calls,        \* flush() calls made on each publisher
    final_flush_done,   \* shutdown is past its flush
    \* ---- camera workers ----
    w_pc,               \* where each worker thread is in CameraWorker._run
    w_running,          \* CameraWorker.running
    w_fs,               \* CameraWorker.frame_source: "none", "live", "stopped"
    w_reads,            \* read_frame calls each worker has made
    w_fatal,            \* read_frame raised FrameSourceError / was called again
    w_init_failed,      \* workers whose initialisation raised
    w_abandoned,        \* workers whose join timed out
    w_stop_called,      \* workers whose stop() cleared the running flag
    publisher_failures, \* the publisher_failures counter, by sink
    kds_submitted,      \* the events workers have passed to put_event
    put_after_final_flush \* put_event was called after shutdown's flush

mainVars == <<cfg, main_pc, exit_code, handlers_installed, signals,
              publishers, sw_i, sw_started, workers>>
sdVars == <<shutdown_event, shutdown_done, sd_pc, sd_from, sd_i,
            flush_calls, final_flush_done>>
workerVars == <<w_pc, w_running, w_fs, w_reads, w_fatal, w_init_failed,
                w_abandoned, w_stop_called, publisher_failures,
                kds_submitted, put_after_final_flush>>
appVars == <<mainVars, sdVars, workerVars>>

VARIABLES
    \* ---- detectors (SpecConfirm, SpecDet) ----
    tc,   \* a TemporalBuffer, the arguments temporal_confirm is called with
          \* and what each call returned
    wd    \* the fields of one WeaponDetector and what process did per frame

detVars == <<tc, wd>>

VARIABLES
    \* ---- envelopes and sinks (SpecEnvelope, SpecItem, SpecSnapshot) ----
    eid,  \* two detector events and the envelopes made of them
    ddb,  \* an envelope and the item DDBWriter._prepare_item made of it
    s3    \* the metrics of one S3Snapshot and what each save call did

sinkVars == <<eid, ddb, s3>>

VARIABLES
    \* ---- SpecChain, SpecIou, SpecPaths, and the worker_alive gauge ----
    ch,    \* what a worker's detector chain and publishing did per frame
    io,    \* two boxes and what iou and calculate_iou returned for them
    cmp,   \* a TemporalBuffer and a TemporalConfirmationHelper fed alike
    alive  \* the gauge worker_alive, by camera

miscVars == <<ch, io, cmp, alive>>
auxVars == <<detVars, sinkVars, miscVars>>

vars == <<fs, now, last, fail_streak, fatal_seen, stop_called,
          kds_cfg, pe, kds_buffer, kds_metrics, kds_calls, kds_accepted,
          t_pc, t_batch, t_puts, t_flushes,
          cfg, main_pc, exit_code, handlers_installed, signals,
          publishers, sw_i, sw_started, workers,
          shutdown_event, shutdown_done, sd_pc, sd_from, sd_i,
          flush_calls, final_flush_done,
          w_pc, w_running, w_fs, w_reads, w_fatal, w_init_failed,
          w_abandoned, w_stop_called, publisher_failures,
          kds_submitted, put_after_final_flush,
          tc, wd, eid, ddb, s3, ch, io, cmp, alive>>

Min(a, b) == IF a < b THEN a ELSE b

(***************************************************************************)
(* Frame source: configuration                                             *)
(***************************************************************************)
DEFAULT_URL_REFRESH_MARGIN == 30
DEFAULT_RECONNECT_DELAY == 5
DEFAULT_MAX_RECONNECT_DELAY == 60
DEFAULT_BACKOFF_MULTIPLIER == 2

\* jitter factors of DEFAULT_JITTER_RANGE = (0.8, 1.2), in tenths: the two
\* ends of the interval random.uniform draws from
JitterTenths == {8, 12}

\* constructor arguments the model draws the source's configuration from
SessionSecondsChoices == {120}
MaxErrorsChoices == {3}

\* the clock stops here
MaxTime == 95
\* read_frame is not called again once the error counter is this far past
\* max_consecutive_errors
MaxOverrun == 1

NoUrl == 0
NoTimestamp == -1
NoCapture == [held |-> FALSE, url |-> NoUrl, opened |-> FALSE]

\* the gauge kvs_hls_connection_state has no sample for the camera yet
NoGauge == -1

ConnectionState == {"disconnected", "connecting", "connected", "reconnecting", "error"}

\* KVSHLSFrameSource.__init__ with the given reconnect_delay and
\* max_reconnect_delay
FsNewWith(session, maxErrors, delay, maxDelay) ==
    [ hls_session_seconds    |-> session,
      url_refresh_margin     |-> DEFAULT_URL_REFRESH_MARGIN,
      reconnect_delay        |-> delay,
      max_reconnect_delay    |-> maxDelay,
      backoff_multiplier     |-> DEFAULT_BACKOFF_MULTIPLIER,
      max_consecutive_errors |-> maxErrors,
      hls_url                |-> NoUrl,
      url_timestamp          |-> NoTimestamp,
      capture                |-> NoCapture,
      connection_state       |-> "disconnected",
      state_gauge            |-> NoGauge, \* kvs_hls_connection_state{camera_id}
      consecutive_errors     |-> 0,
      current_backoff        |-> delay,
      running                |-> FALSE ]

\* KVSHLSFrameSource.__init__ with the default delays
FsNew(session, maxErrors) ==
    FsNewWith(session, maxErrors, DEFAULT_RECONNECT_DELAY,
              DEFAULT_MAX_RECONNECT_DELAY)

\* what one call has done so far
NoCall ==
    [ op          |-> "none", \* the operation: "start", "read", "stop", "release"
      entry_errors  |-> 0,     \* consecutive_errors when it was entered
      entry_stopped |-> FALSE, \* stop() or release() had been called before it
      edges       |-> {},     \* the changes <<from, to>> of connection_state
      sleeps      |-> <<>>,   \* the backoff sleeps: [n, pre, tenths]
      called      |-> FALSE,  \* a read_frame call has been made
      entry_held  |-> FALSE,  \* a session URL was held when it was entered
      entry_age   |-> 0,      \* and the clock minus url_timestamp, then
      pre_fatal   |-> FALSE,  \* fatal had been raised before it was entered
      url_calls   |-> 0,      \* control-plane requests made
      acquired    |-> 0,      \* session URLs obtained
      url_failed  |-> FALSE,  \* a control-plane request failed
      opens       |-> 0,      \* _open_stream calls
      slept       |-> 0,      \* backoff sleeps taken
      handles     |-> 0,      \* _handle_reconnect calls (counter increments)
      read_failed |-> FALSE,  \* capture.read() gave no frame or raised
      handles_at_read |-> 0,  \* _handle_reconnect calls made before that
      read_errors |-> 0,      \* increments of metrics.read_errors_total
      url_refreshes |-> 0,    \* increments of metrics.url_refreshes_total
      entry_url   |-> NoUrl,  \* _hls_url when the call was entered
      entry_timestamp |-> NoTimestamp, \* and _url_timestamp
      exit_url    |-> NoUrl,  \* _hls_url when the call ended
      exit_timestamp |-> NoTimestamp, \* and _url_timestamp, on entry's clock
      result      |-> "none" ] \* "frame", "none" or "fatal"

\* A context threads the source, the clock and the call log through the
\* methods of one call: [s |-> source, t |-> clock, c |-> call log].
Ctx(s, t, c) == [s |-> s, t |-> t, c |-> c]

\* the frame source variables of the specifications that have no frame source
FsIdle ==
    /\ fs = FsNew(120, 3)
    /\ now = 0
    /\ last = NoCall
    /\ fail_streak = 0
    /\ fatal_seen = FALSE
    /\ stop_called = FALSE

(***************************************************************************)
(* Application and camera workers: configuration                           *)
(***************************************************************************)
\* the enabled cameras, in the order of the configuration's cameras mapping
CameraOrder == <<"cam-a", "cam-b">>
Cameras == { CameraOrder[i] : i \in 1..Len(CameraOrder) }

\* the keys Application.publishers can hold
Publishers == {"kds", "s3", "ddb"}

\* what the configuration file holds: a valid configuration, nothing (the
\* file does not exist), text yaml.safe_load rejects, or a document whose
\* cameras entry is not a mapping
ConfigKinds == {"valid", "missing_file", "malformed_yaml", "bad_cameras"}

\* the publishers initialize_publishers ends with: all three, the default
\* (ddb is disabled unless enabled), none (every constructor raised)
PublisherSets == { {"kds", "s3", "ddb"}, {"kds", "s3"}, {} }

\* the signals the handler is registered for; each is delivered at most once
Signals == {"SIGTERM", "SIGINT"}

\* read_frame calls the workers make, all together
MaxReads == 2

\* the process has not exited
NoExit == -1

\* where a worker thread can stay longer than the 5 s join timeout: opening
\* the stream, read_frame (backoff sleeps of up to 60 s), inference
BlockingPcs == {"init", "read", "process"}

\* Application.__init__ with a configuration file of the given kind, before
\* main() has done anything
AppNew(kind) ==
    /\ cfg = kind
    /\ main_pc = "main"
    /\ exit_code = NoExit
    /\ handlers_installed = FALSE
    /\ signals = {}
    /\ publishers = {}
    /\ sw_i = 1
    /\ sw_started = FALSE
    /\ workers = <<>>
    /\ shutdown_event = FALSE
    /\ shutdown_done = FALSE
    /\ sd_pc = "idle"
    /\ sd_from = "none"
    /\ sd_i = 1
    /\ flush_calls = [p \in Publishers |-> 0]
    /\ final_flush_done = FALSE
    /\ w_pc = [c \in Cameras |-> "unstarted"]
    /\ w_running = [c \in Cameras |-> FALSE]
    /\ w_fs = [c \in Cameras |-> "none"]
    /\ w_reads = [c \in Cameras |-> 0]
    /\ w_fatal = [c \in Cameras |-> "no"]
    /\ w_init_failed = {}
    /\ w_abandoned = {}
    /\ w_stop_called = {}
    /\ publisher_failures = [p \in Publishers |-> 0]
    /\ kds_submitted = {}
    /\ put_after_final_flush = FALSE

\* the application variables of the specifications that have no application
AppIdle == AppNew("valid")

(***************************************************************************)
(* Frame source: methods                                                   *)
(***************************************************************************)
\* update_kvs_hls_connection_state: the gauge value of a state name
StateCode(st) ==
    CASE st = "disconnected" -> 0
      [] st = "connecting"   -> 1
      [] st = "connected"    -> 2
      [] st = "reconnecting" -> 3
      [] OTHER               -> 4

\* prom_metrics.update_kvs_hls_connection_state(self.camera_id, st.value)
UpdateGauge(x, st) == [x EXCEPT !.s.state_gauge = StateCode(st)]

\* self._connection_state = st, the change noted in the call log
SetState(x, st) ==
    [x EXCEPT !.s.connection_state = st,
              !.c.edges = IF x.s.connection_state = st THEN @
                          ELSE @ \cup {<<x.s.connection_state, st>>}]

\* _should_refresh_url comparing with > where the code compares with >=
ShouldRefreshUrlStrict(s, t) ==
    IF s.url_timestamp = NoTimestamp THEN TRUE
    ELSE (t - s.url_timestamp) > (s.hls_session_seconds - s.url_refresh_margin)

\* _should_refresh_url
ShouldRefreshUrl(s, t) ==
    IF s.url_timestamp = NoTimestamp THEN TRUE
    ELSE (t - s.url_timestamp) >= (s.hls_session_seconds - s.url_refresh_margin)

\* the URL a successful _get_hls_url returns: a session URL never seen before
\* by the open decoder (two names are enough to tell old from new)
FreshUrl(s) == IF s.hls_url = 1 THEN 2 ELSE 1

\* an acquisition that stamps the attempt even when the control plane fails
GetHlsUrlStampsFailure(x, ok) ==
    IF ok
    THEN [x EXCEPT !.s.hls_url = FreshUrl(x.s),
                   !.s.url_timestamp = x.t,
                   !.c.url_calls = @ + 1,
                   !.c.url_refreshes = @ + 1,
                   !.c.acquired = @ + 1]
    ELSE [x EXCEPT !.s.url_timestamp = x.t,
                   !.c.url_calls = @ + 1,
                   !.c.url_failed = TRUE]

\* self._hls_url = self._get_hls_url(); self._url_timestamp = time.time()
\* ok = FALSE: the control plane fails and KVSConnectionError is raised before
\* either field is assigned
GetHlsUrl(x, ok) ==
    IF ok
    THEN [x EXCEPT !.s.hls_url = FreshUrl(x.s),
                   !.s.url_timestamp = x.t,
                   !.c.url_calls = @ + 1,
                   !.c.url_refreshes = @ + 1,
                   !.c.acquired = @ + 1]
    ELSE [x EXCEPT !.c.url_calls = @ + 1,
                   !.c.url_failed = TRUE]

\* _reset_backoff restoring the delay and leaving the counter as it is
ResetBackoffKeepsCount(s) ==
    [s EXCEPT !.current_backoff = s.reconnect_delay]

\* _reset_backoff
ResetBackoff(s) ==
    [s EXCEPT !.current_backoff = s.reconnect_delay,
              !.consecutive_errors = 0]

\* _open_stream with the control plane answering urlOk and the decoder
\* opening capOk; the result is [x |-> context, ret |-> returned value]
OpenStream(x, urlOk, capOk) ==
    LET x1 == [UpdateGauge(SetState(x, "connecting"), "connecting")
                  EXCEPT !.c.opens = @ + 1]
        need == x1.s.hls_url = NoUrl \/ ShouldRefreshUrl(x1.s, x1.t)
        x2 == IF need THEN GetHlsUrl(x1, urlOk) ELSE x1
    IN  IF need /\ ~urlOk
        THEN [x |-> UpdateGauge(SetState(x2, "error"), "error"),
              ret |-> FALSE]
        ELSE LET cap == [held |-> TRUE, url |-> x2.s.hls_url, opened |-> capOk]
                 x3 == [x2 EXCEPT !.s.capture = cap]
             IN  IF ~capOk
                 THEN [x |-> UpdateGauge(SetState(x3, "error"), "error"),
                       ret |-> FALSE]
                 ELSE [x |-> [UpdateGauge(SetState(x3, "connected"),
                                          "connected")
                                 EXCEPT !.s = ResetBackoff(@)],
                       ret |-> TRUE]

\* every way _open_stream can end from x
OpenStreamOuts(x) ==
    { OpenStream(x, u, k) : u \in BOOLEAN, k \in BOOLEAN }

\* _calculate_backoff_delay with the jitter factor j/10: the delay before
\* jitter (pre), the jittered delay in tenths of a second (tenths) and in
\* whole seconds of the model's clock (delay), and the source afterwards
CalculateBackoffDelay(s, j) ==
    [ pre    |-> Min(s.current_backoff, s.max_reconnect_delay),
      tenths |-> Min(s.current_backoff, s.max_reconnect_delay) * j,
      delay  |-> (Min(s.current_backoff, s.max_reconnect_delay) * j) \div 10,
      s     |-> [s EXCEPT !.current_backoff =
                     Min(s.current_backoff * s.backoff_multiplier,
                         s.max_reconnect_delay)] ]

\* _handle_reconnect: ret is TRUE, FALSE or "raise" (FrameSourceError)
HandleReconnectOuts(x) ==
    LET x1 == [x EXCEPT !.s.consecutive_errors = @ + 1,
                        !.c.handles = @ + 1]
    IN  IF x1.s.consecutive_errors >= x1.s.max_consecutive_errors
        THEN { [x |-> x1, ret |-> "raise"] }
        ELSE UNION {
               LET b  == CalculateBackoffDelay(x1.s, j)
                   x2 == [x1 EXCEPT !.s = b.s,
                                    !.t = @ + b.delay,
                                    !.c.slept = @ + 1,
                                    !.c.sleeps = Append(@,
                                        [n |-> x1.s.consecutive_errors,
                                         pre |-> b.pre, tenths |-> b.tenths])]
               IN  { [x |-> o.x, ret |-> IF o.ret THEN "true" ELSE "false"]
                     : o \in OpenStreamOuts(x2) }
               : j \in JitterTenths }

\* _refresh_url_if_needed
RefreshUrlIfNeeded(x, urlOk) ==
    IF ~ShouldRefreshUrl(x.s, x.t)
    THEN [x |-> x, ret |-> TRUE]
    ELSE LET x1 == GetHlsUrl(x, urlOk)
         IN  IF urlOk
             THEN [x |-> SetState(x1, "reconnecting"), ret |-> TRUE]
             ELSE [x |-> x1, ret |-> FALSE]

RefreshUrlIfNeededOuts(x) == { RefreshUrlIfNeeded(x, u) : u \in BOOLEAN }

\* the call ends with result r
Done(x, r) ==
    [x EXCEPT !.c.result = r,
              !.c.exit_url = x.s.hls_url,
              !.c.exit_timestamp = x.s.url_timestamp]

\* read_frame, inside its try block: _handle_reconnect() and return None.  A
\* FrameSourceError it raises is caught by the except Exception clause of
\* read_frame, which calls _handle_reconnect() once more; that call raises
\* again (the counter has only grown) and the error leaves read_frame;
\* the except clause adds one to read_errors_total before it does so
AfterFailedRead(x) ==
    UNION { IF h.ret = "raise"
            THEN { Done(h2.x, IF h2.ret = "raise" THEN "fatal" ELSE "none")
                   : h2 \in HandleReconnectOuts(
                                [h.x EXCEPT !.c.read_errors = @ + 1]) }
            ELSE { Done(h.x, "none") }
            : h \in HandleReconnectOuts(x) }

\* capture.read() has given no frame or has raised: noted in the call log
NoteFailedRead(x) ==
    [x EXCEPT !.c.read_failed = TRUE,
              !.c.handles_at_read = x.c.handles,
              !.c.read_errors = @ + 1]

\* read_frame, the except Exception clause entered because capture.read()
\* raised: read_errors_total += 1 and one _handle_reconnect()
AfterRaisedRead(x) ==
    { Done(h.x, IF h.ret = "raise" THEN "fatal" ELSE "none")
      : h \in HandleReconnectOuts(NoteFailedRead(x)) }

\* what capture.read() does: it returns a frame, returns none, or raises
CaptureReads == {"ok", "fail", "raises"}

\* read_frame, third part: read the decoder
ReadCapture(x) ==
    IF ~x.s.capture.held \/ ~x.s.capture.opened
    THEN AfterFailedRead(x)
    ELSE UNION {
           CASE rd = "ok" ->
                  { Done([x EXCEPT !.s = ResetBackoff(x.s)], "frame") }
             [] rd = "fail" -> AfterFailedRead(NoteFailedRead(x))
             [] rd = "raises" -> AfterRaisedRead(x)
           : rd \in CaptureReads }

\* read_frame, second part: refresh the URL if needed
ReadRefresh(x) ==
    UNION { IF r.ret THEN ReadCapture(r.x)
            ELSE UNION { IF h.ret = "raise" THEN { Done(h.x, "fatal") }
                         ELSE IF h.ret = "false" THEN { Done(h.x, "none") }
                         ELSE ReadCapture(h.x)
                         : h \in HandleReconnectOuts(r.x) }
            : r \in RefreshUrlIfNeededOuts(x) }

\* read_frame: every way one call can end from x
ReadFrameOuts(x) ==
    IF x.s.connection_state \notin {"connected", "reconnecting"}
    THEN UNION { IF o.ret THEN ReadRefresh(o.x)
                 ELSE UNION { IF h.ret = "raise" THEN { Done(h.x, "fatal") }
                              ELSE IF h.ret = "false" THEN { Done(h.x, "none") }
                              ELSE ReadRefresh(h.x)
                              : h \in HandleReconnectOuts(o.x) }
                 : o \in OpenStreamOuts(x) }
    ELSE ReadRefresh(x)

\* start
StartOuts(x) ==
    OpenStreamOuts([x EXCEPT !.s.running = TRUE])

\* stop
Stop(s) == [s EXCEPT !.running = FALSE]

\* release
Release(s) ==
    [s EXCEPT !.running = FALSE,
              !.capture = NoCapture,
              !.connection_state = "disconnected",
              !.state_gauge = StateCode("disconnected")]

\* the call log of an operation other than read_frame, as it is entered
OpLog(op) == [NoCall EXCEPT !.op = op]


(***************************************************************************)
(* Detectors: temporal confirmation and spatial deduplication              *)
(* (utils/roi.py, detectors/base.py, detectors/weapon.py)                  *)
(***************************************************************************)
\* bounding boxes [x1, y1, x2, y2]: the three of validate_temporal_confirm,
\* which overlap each other almost wholly, and one far from them
BoxA == <<100, 100, 200, 200>>
BoxB == <<102, 98, 202, 198>>
BoxC == <<101, 99, 201, 199>>
BoxFar == <<300, 300, 400, 400>>
Boxes == {BoxA, BoxB, BoxC, BoxFar}
Labels == {"gun", "knife"}

Max(a, b) == IF a > b THEN a ELSE b

\* an iou whose union is the sum of the two areas
IouOverSum(box1, box2) ==
    LET x1_i == Max(box1[1], box2[1])
        y1_i == Max(box1[2], box2[2])
        x2_i == Min(box1[3], box2[3])
        y2_i == Min(box1[4], box2[4])
        intersection_area == (x2_i - x1_i) * (y2_i - y1_i)
        box1_area == (box1[3] - box1[1]) * (box1[4] - box1[2])
        box2_area == (box2[3] - box2[1]) * (box2[4] - box2[2])
        union_area == box1_area + box2_area
    IN  IF x2_i <= x1_i \/ y2_i <= y1_i THEN <<0, 1>>
        ELSE IF union_area <= 0 THEN <<0, 1>>
        ELSE <<intersection_area, union_area>>

\* detectors.base.calculate_iou, the quotient as a pair like Iou below
CalculateIou(box1, box2) ==
    LET x1_i == Max(box1[1], box2[1])
        y1_i == Max(box1[2], box2[2])
        x2_i == Min(box1[3], box2[3])
        y2_i == Min(box1[4], box2[4])
        intersection == (x2_i - x1_i) * (y2_i - y1_i)
        area1 == (box1[3] - box1[1]) * (box1[4] - box1[2])
        area2 == (box2[3] - box2[1]) * (box2[4] - box2[2])
        union == area1 + area2 - intersection
    IN  IF x2_i <= x1_i \/ y2_i <= y1_i THEN <<0, 1>>
        ELSE IF union <= 0 THEN <<0, 1>>
        ELSE <<intersection, union>>

\* utils.iou (and calculate_iou, which computes the same): the quotient
\* intersection / union as the pair of its
\* integer numerator and denominator; 0.0 is <<0, 1>>
Iou(box1, box2) ==
    LET x1_i == Max(box1[1], box2[1])
        y1_i == Max(box1[2], box2[2])
        x2_i == Min(box1[3], box2[3])
        y2_i == Min(box1[4], box2[4])
        intersection_area == (x2_i - x1_i) * (y2_i - y1_i)
        box1_area == (box1[3] - box1[1]) * (box1[4] - box1[2])
        box2_area == (box2[3] - box2[1]) * (box2[4] - box2[2])
        union_area == box1_area + box2_area - intersection_area
    IN  IF x2_i <= x1_i \/ y2_i <= y1_i THEN <<0, 1>>
        ELSE IF union_area <= 0 THEN <<0, 1>>
        ELSE <<intersection_area, union_area>>

\* overlap >= iou_threshold, the threshold given in tenths
IouAtLeast(box1, box2, tenths) ==
    10 * Iou(box1, box2)[1] >= tenths * Iou(box1, box2)[2]

\* overlap > iou_threshold
IouAbove(box1, box2, tenths) ==
    10 * Iou(box1, box2)[1] > tenths * Iou(box1, box2)[2]

\* collections.deque(maxlen=maxlen).append(x)
DequeAppend(q, x, maxlen) ==
    IF maxlen = 0 THEN q
    ELSE IF Len(q) >= maxlen THEN Append(Tail(q), x)
    ELSE Append(q, x)

\* TemporalBuffer.__init__
TemporalBufferNew(maxlen) ==
    [maxlen |-> maxlen, buffer |-> <<>>, frame_counter |-> 0]

\* the frame_idx argument left out
NoFrameIdx == -1

\* TemporalBuffer.add
TemporalBufferAdd(b, label, bbox, confidence, frame_idx) ==
    LET idx == IF frame_idx = NoFrameIdx THEN b.frame_counter ELSE frame_idx
        entry == [label |-> label, bbox |-> bbox, conf |-> confidence,
                  frame_idx |-> idx]
    IN  [b EXCEPT !.buffer = DequeAppend(@, entry, b.maxlen),
                  !.frame_counter = IF frame_idx = NoFrameIdx THEN @ + 1
                                    ELSE @]

\* the entries of q from the i-th on with the label and an overlap with
\* bbox of at least the threshold: the loop of TemporalBuffer.count_similar
\* and of TemporalConfirmationHelper.check_confirmation
RECURSIVE CountFrom(_, _, _, _, _)
CountFrom(q, i, label, bbox, tenths) ==
    IF i > Len(q) THEN 0
    ELSE (IF q[i].label = label /\ IouAtLeast(bbox, q[i].bbox, tenths)
          THEN 1 ELSE 0) + CountFrom(q, i + 1, label, bbox, tenths)

\* TemporalBuffer.count_similar
CountSimilar(b, label, bbox, tenths) ==
    CountFrom(b.buffer, 1, label, bbox, tenths)

\* a temporal_confirm that appends before it counts
TemporalConfirmCountsItself(b, label, bbox, confidence, min_confirmations, tenths, frame_idx) ==
    LET after == TemporalBufferAdd(b, label, bbox, confidence, frame_idx)
    IN  [buffer |-> after,
         result |-> CountSimilar(after, label, bbox, tenths)
                        >= min_confirmations - 1]

\* temporal_confirm: count, then append
TemporalConfirm(b, label, bbox, confidence, min_confirmations, tenths, frame_idx) ==
    LET count == CountSimilar(b, label, bbox, tenths)
    IN  [buffer |-> TemporalBufferAdd(b, label, bbox, confidence, frame_idx),
         result |-> count >= min_confirmations - 1]

\* no temporal_confirm call has been made
TcNew(maxlen, min_confirmations) ==
    [buffer |-> TemporalBufferNew(maxlen),
     min_confirmations |-> min_confirmations,
     calls |-> <<>>]

\* TemporalConfirmationHelper.__init__; the history of the one camera the
\* detector's worker serves (no entry for the camera is the empty history)
TemporalHelperNew(window_frames, tenths, min_confirmations) ==
    [window_frames |-> window_frames, iou_threshold |-> tenths,
     min_confirmations |-> min_confirmations, history |-> <<>>]

\* TemporalConfirmationHelper.check_confirmation
CheckConfirmation(h, label, bbox) ==
    IF Len(h.history) < h.min_confirmations THEN FALSE
    ELSE CountFrom(h.history, 1, label, bbox, h.iou_threshold)
             >= h.min_confirmations

\* TemporalConfirmationHelper.add_detection
AddDetection(h, label, bbox, conf, frame_index) ==
    [h EXCEPT !.history =
        DequeAppend(@, [label |-> label, bbox |-> bbox, conf |-> conf,
                        frame_idx |-> frame_index], h.window_frames)]

\* TemporalConfirmationHelper.add_and_check: check, then add
AddAndCheck(h, label, bbox, conf, frame_index) ==
    [helper |-> AddDetection(h, label, bbox, conf, frame_index),
     result |-> CheckConfirmation(h, label, bbox)]

\* _bbox_to_grid: floor(center / grid_size) of the centre ((x1 + x2) / 2,
\* (y1 + y2) / 2)
BboxToGrid(bbox, grid_size) ==
    <<(bbox[1] + bbox[3]) \div (2 * grid_size),
      (bbox[2] + bbox[4]) \div (2 * grid_size)>>

\* _detection_hash: the digest of "label:gx_gy", taken to be different for
\* different strings
DetectionHash(label, bbox, grid_size) ==
    <<label, BboxToGrid(bbox, grid_size)>>

\* defaults of WeaponDetector.configure
DEFAULT_TEMPORAL_WINDOW == 5
DEFAULT_TEMPORAL_MIN_CONF == 3
DEFAULT_TEMPORAL_IOU_TENTHS == 3
DEFAULT_DEDUP_WINDOW == 30
DEFAULT_DEDUP_GRID_SIZE == 20

\* WeaponDetector after configure(cfg): no class list, thresholds at their
\* defaults; frames holds what process did for each frame
WeaponDetectorNew(use_temporal_buffer, temporal_window, temporal_min_conf, dedup_window) ==
    [use_temporal_buffer |-> use_temporal_buffer,
     temporal_min_conf |-> temporal_min_conf,
     temporal_iou |-> DEFAULT_TEMPORAL_IOU_TENTHS,
     temporal_buffer |-> TemporalBufferNew(temporal_window),
     temporal_helper |-> TemporalHelperNew(temporal_window,
                                           DEFAULT_TEMPORAL_IOU_TENTHS,
                                           temporal_min_conf),
     dedup_window |-> dedup_window,
     dedup_grid_size |-> DEFAULT_DEDUP_GRID_SIZE,
     recent_detections |-> <<>>,
     frame_count |-> 0,
     frames |-> <<>>]

\* the loop over self._recent_detections: the hash was emitted fewer than
\* dedup_window frames ago
IsDuplicate(w, det_hash) ==
    \E j \in 1..Len(w.recent_detections) :
        /\ w.recent_detections[j].hash = det_hash
        /\ w.frame_count - w.recent_detections[j].frame < w.dedup_window

\* process, the loop "for label, conf, bbox in detections" from the i-th
\* detection on; done holds what became of the detections before it
RECURSIVE ProcessFrom(_, _, _, _)
ProcessFrom(w, detections, i, done) ==
    IF i > Len(detections)
    THEN [w EXCEPT !.frames = Append(@, done)]
    ELSE LET det == detections[i]
             viaBuffer == TemporalConfirm(w.temporal_buffer, det.label,
                              det.bbox, det.conf, w.temporal_min_conf,
                              w.temporal_iou, w.frame_count)
             viaHelper == AddAndCheck(w.temporal_helper, det.label, det.bbox,
                              det.conf, w.frame_count)
             is_confirmed == IF w.use_temporal_buffer THEN viaBuffer.result
                             ELSE viaHelper.result
             w1 == IF w.use_temporal_buffer
                   THEN [w EXCEPT !.temporal_buffer = viaBuffer.buffer]
                   ELSE [w EXCEPT !.temporal_helper = viaHelper.helper]
             det_hash == DetectionHash(det.label, det.bbox, w.dedup_grid_size)
             is_duplicate == is_confirmed /\ IsDuplicate(w1, det_hash)
             emitted == is_confirmed /\ ~is_duplicate
             w2 == IF emitted
                   THEN [w1 EXCEPT !.recent_detections =
                            DequeAppend(@, [frame |-> w.frame_count,
                                            hash |-> det_hash],
                                        w.dedup_window)]
                   ELSE w1
             what == [label |-> det.label, bbox |-> det.bbox,
                      confirmed |-> is_confirmed, duplicate |-> is_duplicate,
                      emitted |-> emitted]
         IN  ProcessFrom(w2, detections, i + 1, Append(done, what))

\* WeaponDetector.process(frame, ts_ms, ctx) for the detections run_yolo
\* returns on the frame; ctx has no ROI and no minimum box area
WeaponProcess(w, detections) ==
    ProcessFrom([w EXCEPT !.frame_count = @ + 1], detections, 1, <<>>)

\* no temporal_confirm call and no frame yet
DetIdle ==
    /\ tc = TcNew(DEFAULT_TEMPORAL_WINDOW, DEFAULT_TEMPORAL_MIN_CONF)
    /\ wd = WeaponDetectorNew(FALSE, DEFAULT_TEMPORAL_WINDOW,
                              DEFAULT_TEMPORAL_MIN_CONF, DEFAULT_DEDUP_WINDOW)

\* no envelope, no item and no snapshot yet
SinkIdle ==
    /\ eid = <<>>
    /\ ddb = <<>>
    /\ s3 = <<>>

\* the remaining variables of the specifications that do not use them
MiscIdle ==
    /\ ch = <<>>
    /\ io = <<>>
    /\ cmp = <<>>
    /\ alive = [c \in Cameras |-> 0]

AuxIdle ==
    /\ DetIdle
    /\ SinkIdle
    /\ MiscIdle

(***************************************************************************)
(* Event-stream publisher (publisher/kds.py)                               *)
(***************************************************************************)
\* the AWS limit of records per put_records request
KDS_BATCH_LIMIT == 500
\* the default of max_retries
KDS_MAX_RETRIES == 3

\* batch_size arguments the model constructs the client with
BatchSizeChoice == 2

\* the threads calling the shared client, and the calls each may make
Threads == {"cam-a", "cam-b"}
MaxPuts == 2
MaxFlushes == 1

\* keys of the dict a detector emits (Event.to_dict) and of the dict
\* CameraWorker._publish_events builds around it
EventKeys == {"camera_id", "type", "label", "conf", "bbox", "ts_ms", "extras"}
WrapperKeys == {"camera_id", "payload"}

\* _create_event_envelope reads event["camera_id"], event["type"],
\* event["label"] and event["ts_ms"]: a dict without one of them raises KeyError
EnvelopeKeys == {"camera_id", "type", "label", "ts_ms"}
CreateEventEnvelopeOk(ev) == EnvelopeKeys \subseteq ev.keys

\* KDSClient.__init__: batch_size is capped at the limit of put_records;
\* service is the service the client talks to, "healthy" or "faulty"
KdsNew(batchSize, maxRetries, service) ==
    [ batch_size  |-> Min(batchSize, KDS_BATCH_LIMIT),
      max_retries |-> maxRetries,
      service     |-> service ]

KdsBatchSize == kds_cfg.batch_size
KdsNewMetrics == [published |-> 0, failed |-> 0, retried |-> 0, batches_sent |-> 0]

\* An answer of the service to one put_records call:
\*   "ok"            FailedRecordCount = 0
\*   "fail_first"    the first record of the request carries an ErrorCode
\*   "fail_odd"      the first, third, ... records carry an ErrorCode
\*   "fail_all"      every record of the request carries an ErrorCode
\*   "throttle"      ClientError ProvisionedThroughputExceededException or
\*                   ServiceUnavailable
\*   "client_error"  any other ClientError
\*   "exception"     any other exception
PartialAnswers == {"fail_first", "fail_odd", "fail_all"}
FaultyAnswers == PartialAnswers \cup {"throttle", "client_error", "exception"}

\* the answers the service of the client can give
ServiceAnswers ==
    IF kds_cfg.service = "healthy" THEN {"ok"} ELSE {"ok"} \cup FaultyAnswers

\* 'ErrorCode' in response['Records'][i - 1], for the answer a
ErrorCodeAt(a, i) ==
    \/ a = "fail_all"
    \/ a = "fail_first" /\ i = 1
    \/ a = "fail_odd" /\ i % 2 = 1

\* the enumerate loop over response['Records'], from position i on: the
\* records whose result carries an ErrorCode are appended in turn
RECURSIVE NewFailedRecords(_, _, _)
NewFailedRecords(records, a, i) ==
    IF i > Len(records) THEN <<>>
    ELSE IF ErrorCodeAt(a, i)
    THEN <<records[i]>> \o NewFailedRecords(records, a, i + 1)
    ELSE NewFailedRecords(records, a, i + 1)

\* a retry that sends the whole request again when a record was rejected
RejectedRecordsWhole(records, a) ==
    IF NewFailedRecords(records, a, 1) # <<>> THEN records ELSE <<>>

\* new_failed_records: the records of a request the answer rejects
RejectedRecords(records, a) == NewFailedRecords(records, a, 1)

\* the batches _send_batch_with_retries has been called with, as the calls show
BatchesIn(calls) ==
    Cardinality({ i \in 1..Len(calls) : calls[i].attempt = 0 })

\* _send_batch_with_retries: the state of its loop
SendStart(batch, metrics, calls) ==
    [failed_records |-> batch, attempt |-> 0, metrics |-> metrics,
     calls |-> calls, batch |-> BatchesIn(calls) + 1, ret |-> "running"]

\* an iteration that retries after every ClientError, whatever its code
SendIterationRetriesAll(st, a) ==
    LET n == Len(st.failed_records)
        retry == st.attempt < kds_cfg.max_retries
        call == [records |-> st.failed_records, batch |-> st.batch,
                 attempt |-> st.attempt, answer |-> a,
                 failed |-> 0, ret |-> "running"]
    IN  CASE a = "ok" ->
               [st EXCEPT !.metrics.published = @ + n,
                          !.metrics.batches_sent = @ + 1,
                          !.calls = Append(@, [call EXCEPT !.ret = "true"]),
                          !.ret = "true"]
          [] a \in PartialAnswers ->
               [st EXCEPT !.metrics.published =
                              @ + (n - Len(RejectedRecords(st.failed_records, a))),
                          !.metrics.failed =
                              @ + Len(RejectedRecords(st.failed_records, a)),
                          !.calls = Append(@, [call EXCEPT !.failed =
                                     Len(RejectedRecords(st.failed_records, a))]),
                          !.failed_records = RejectedRecords(@, a),
                          !.attempt = @ + 1]
          [] a \in {"throttle", "client_error"} ->
               [st EXCEPT !.metrics.retried = IF retry THEN @ + n ELSE @,
                          !.calls = Append(@, call),
                          !.attempt = @ + 1]
          [] OTHER ->
               [st EXCEPT !.metrics.failed = @ + n,
                          !.calls = Append(@, [call EXCEPT !.failed = n,
                                                           !.ret = "false"]),
                          !.ret = "false"]

\* one iteration of the while loop of _send_batch_with_retries, the service
\* answering a.  The call is noted with its Records, the batch it belongs to,
\* the attempt, the answer, the records it adds to the failed metric and
\* what the method has returned by then
SendIteration(st, a) ==
    LET n == Len(st.failed_records)
        new_failed == RejectedRecords(st.failed_records, a)
        retry == st.attempt < kds_cfg.max_retries
        call == [records |-> st.failed_records, batch |-> st.batch,
                 attempt |-> st.attempt, answer |-> a,
                 failed |-> 0, ret |-> "running"]
    IN  CASE a = "ok" ->
               [st EXCEPT !.metrics.published = @ + n,
                          !.metrics.batches_sent = @ + 1,
                          !.calls = Append(@, [call EXCEPT !.ret = "true"]),
                          !.ret = "true"]
          [] a \in PartialAnswers ->
               [st EXCEPT !.metrics.published = @ + (n - Len(new_failed)),
                          !.metrics.failed = @ + Len(new_failed),
                          !.metrics.retried = IF retry THEN @ + Len(new_failed)
                                              ELSE @,
                          !.calls = Append(@, [call EXCEPT
                                                 !.failed = Len(new_failed)]),
                          !.failed_records = new_failed,
                          !.attempt = @ + 1]
          [] a = "throttle" ->
               [st EXCEPT !.metrics.retried = IF retry THEN @ + n ELSE @,
                          !.calls = Append(@, call),
                          !.attempt = @ + 1]
          [] OTHER ->
               [st EXCEPT !.metrics.failed = @ + n,
                          !.calls = Append(@, [call EXCEPT !.failed = n,
                                                           !.ret = "false"]),
                          !.ret = "false"]

\* the while loop, and what follows it: False if records are left
RECURSIVE SendLoopOuts(_)
SendLoopOuts(st) ==
    IF st.ret # "running" THEN { st }
    ELSE IF st.attempt <= kds_cfg.max_retries /\ st.failed_records # <<>>
    THEN UNION { SendLoopOuts(SendIteration(st, a)) : a \in ServiceAnswers }
    ELSE LET r == IF st.failed_records # <<>> THEN "false" ELSE "true"
         IN  { [st EXCEPT !.ret = r,
                          !.calls = IF @ = <<>> THEN @
                                    ELSE [@ EXCEPT ![Len(@)].ret = r]] }

\* every way _send_batch_with_retries(batch) can end
SendBatchWithRetriesOuts(batch, metrics, calls) ==
    SendLoopOuts(SendStart(batch, metrics, calls))

\* no put_events call has been made
NoPutEvents ==
    [pc |-> "idle", events |-> <<>>, i |-> 1, success |-> TRUE, flushes |-> <<>>]

\* a new client with an empty buffer
KdsEmpty ==
    /\ kds_buffer = <<>>
    /\ kds_metrics = KdsNewMetrics
    /\ kds_calls = <<>>
    /\ kds_accepted = {}
    /\ t_pc = [t \in Threads |-> "idle"]
    /\ t_batch = [t \in Threads |-> <<>>]
    /\ t_puts = [t \in Threads |-> 0]
    /\ t_flushes = [t \in Threads |-> 0]

PubIdle ==
    /\ kds_cfg = KdsNew(BatchSizeChoice, KDS_MAX_RETRIES, "healthy")
    /\ pe = NoPutEvents
    /\ KdsEmpty

(***************************************************************************)
(* SpecPub: threads calling put_event and flush on one KDSClient.  The     *)
(* client takes no lock, so the threads interleave between the statements  *)
(* of put_event and flush (each list operation is one interpreter step).   *)
(***************************************************************************)
InitPub ==
    /\ PubIdle
    /\ AuxIdle
    /\ FsIdle
    /\ AppIdle

\* put_event, lines 163-166: build the envelope and append it to the buffer
PutEventAppend(t) ==
    /\ t_pc[t] = "idle"
    /\ t_puts[t] < MaxPuts
    /\ LET ev == [camera |-> t, seq |-> t_puts[t] + 1, keys |-> EventKeys]
       IN  /\ CreateEventEnvelopeOk(ev)
           /\ kds_buffer' = Append(kds_buffer, ev)
           /\ kds_accepted' = kds_accepted \cup {ev}
    /\ t_puts' = [t_puts EXCEPT ![t] = @ + 1]
    /\ t_pc' = [t_pc EXCEPT ![t] = "check"]
    /\ UNCHANGED <<kds_metrics, kds_calls, t_batch, t_flushes>>
    /\ UNCHANGED <<fsVars, appVars, kds_cfg, pe, auxVars>>

\* put_event, lines 169-172: flush if the buffer is full
PutEventCheck(t) ==
    /\ t_pc[t] = "check"
    /\ t_pc' = [t_pc EXCEPT ![t] =
                   IF Len(kds_buffer) >= KdsBatchSize THEN "flush" ELSE "idle"]
    /\ UNCHANGED <<kds_buffer, kds_metrics, kds_calls, kds_accepted,
                   t_batch, t_puts, t_flushes>>
    /\ UNCHANGED <<fsVars, appVars, kds_cfg, pe, auxVars>>

\* a thread calls flush() itself (put_events, Application.shutdown)
FlushCall(t) ==
    /\ t_pc[t] = "idle"
    /\ t_flushes[t] < MaxFlushes
    /\ t_flushes' = [t_flushes EXCEPT ![t] = @ + 1]
    /\ t_pc' = [t_pc EXCEPT ![t] = "flush"]
    /\ UNCHANGED <<kds_buffer, kds_metrics, kds_calls, kds_accepted,
                   t_batch, t_puts>>
    /\ UNCHANGED <<fsVars, appVars, kds_cfg, pe, auxVars>>

\* flush, lines 204-205: nothing to send
FlushTest(t) ==
    /\ t_pc[t] = "flush"
    /\ t_pc' = [t_pc EXCEPT ![t] = IF kds_buffer = <<>> THEN "idle" ELSE "copy"]
    /\ UNCHANGED <<kds_buffer, kds_metrics, kds_calls, kds_accepted,
                   t_batch, t_puts, t_flushes>>
    /\ UNCHANGED <<fsVars, appVars, kds_cfg, pe, auxVars>>

\* flush, line 208: batch = self._batch_buffer.copy()
FlushCopy(t) ==
    /\ t_pc[t] = "copy"
    /\ t_batch' = [t_batch EXCEPT ![t] = kds_buffer]
    /\ t_pc' = [t_pc EXCEPT ![t] = "clear"]
    /\ UNCHANGED <<kds_buffer, kds_metrics, kds_calls, kds_accepted,
                   t_puts, t_flushes>>
    /\ UNCHANGED <<fsVars, appVars, kds_cfg, pe, auxVars>>

\* flush, line 209: self._batch_buffer.clear()
FlushClear(t) ==
    /\ t_pc[t] = "clear"
    /\ kds_buffer' = <<>>
    /\ t_pc' = [t_pc EXCEPT ![t] = "send"]
    /\ UNCHANGED <<kds_metrics, kds_calls, kds_accepted,
                   t_batch, t_puts, t_flushes>>
    /\ UNCHANGED <<fsVars, appVars, kds_cfg, pe, auxVars>>

\* flush, line 212: return self._send_batch_with_retries(batch)
FlushSend(t) ==
    /\ t_pc[t] = "send"
    /\ \E o \in SendBatchWithRetriesOuts(t_batch[t], kds_metrics, kds_calls) :
          /\ kds_metrics' = o.metrics
          /\ kds_calls' = o.calls
    /\ t_batch' = [t_batch EXCEPT ![t] = <<>>]
    /\ t_pc' = [t_pc EXCEPT ![t] = "idle"]
    /\ UNCHANGED <<kds_buffer, kds_accepted, t_puts, t_flushes>>
    /\ UNCHANGED <<fsVars, appVars, kds_cfg, pe, auxVars>>

NextPub ==
    \E t \in Threads :
        \/ PutEventAppend(t)
        \/ PutEventCheck(t)
        \/ FlushCall(t)
        \/ FlushTest(t)
        \/ FlushCopy(t)
        \/ FlushClear(t)
        \/ FlushSend(t)

SpecPub == InitPub /\ [][NextPub]_vars

\* the number of put_records calls whose Records hold ev
TimesSent(ev) ==
    Cardinality({ i \in 1..Len(kds_calls) :
                    \E j \in 1..Len(kds_calls[i].records) :
                        kds_calls[i].records[j] = ev })

\* no thread is inside put_event or flush and the buffer is empty
PubQuiescent ==
    /\ \A t \in Threads : t_pc[t] = "idle"
    /\ kds_buffer = <<>>

\* C1: under every interleaving of the threads, an event accepted by
\* put_event is never handed to put_records in two batches, and once the
\* buffer has been flushed and every call has returned it has been handed to
\* put_records in exactly one.
C1_EachEventInExactlyOneBatch ==
    \A ev \in kds_accepted :
        /\ TimesSent(ev) <= 1
        /\ PubQuiescent => TimesSent(ev) = 1

(***************************************************************************)
(* SpecFS: one frame source and its caller                                 *)
(***************************************************************************)
EntryLog(s, t) ==
    [NoCall EXCEPT !.op = "read",
                   !.entry_errors = s.consecutive_errors,
                   !.entry_stopped = stop_called,
                   !.called = TRUE,
                   !.entry_held = (s.url_timestamp # NoTimestamp),
                   !.entry_age = IF s.url_timestamp # NoTimestamp
                                 THEN t - s.url_timestamp ELSE 0,
                   !.entry_url = s.hls_url,
                   !.entry_timestamp = s.url_timestamp,
                   !.pre_fatal = fatal_seen]

\* The code uses clock readings only in the difference time.time() -
\* _url_timestamp, so the clock's origin is moved to the instant of the latest
\* acquisition after every operation: url_timestamp is 0 whenever a URL is
\* held, and the clock is 0 while none has been acquired.
Rebase(x) ==
    IF x.s.url_timestamp = NoTimestamp THEN [x EXCEPT !.t = 0]
    ELSE [x EXCEPT !.t = @ - x.s.url_timestamp, !.s.url_timestamp = 0]

InitFS ==
    /\ PubIdle
    /\ AuxIdle
    /\ AppIdle
    /\ \E session \in SessionSecondsChoices, m \in MaxErrorsChoices :
           fs = FsNew(session, m)
    /\ now = 0
    /\ last = NoCall
    /\ fail_streak = 0
    /\ fatal_seen = FALSE
    /\ stop_called = FALSE

\* the caller calls start()
FsStart ==
    /\ UNCHANGED <<pubVars, appVars, auxVars>>
    /\ ~fs.running
    /\ fs.connection_state = "disconnected"
    /\ \E o \in StartOuts(Ctx(fs, now, OpLog("start"))) :
          /\ fs' = Rebase(o.x).s
          /\ now' = Rebase(o.x).t
          /\ last' = o.x.c
    /\ stop_called' = FALSE
    /\ UNCHANGED <<fail_streak, fatal_seen>>

\* the caller calls read_frame()
FsReadFrame ==
    /\ UNCHANGED <<pubVars, appVars, auxVars>>
    /\ fs.consecutive_errors < fs.max_consecutive_errors + MaxOverrun
    /\ \E o \in ReadFrameOuts(Ctx(fs, now, EntryLog(fs, now))) :
          /\ o.t <= MaxTime
          /\ fs' = Rebase(o).s
          /\ now' = Rebase(o).t
          /\ last' = o.c
          /\ fail_streak' = IF o.c.result = "frame" THEN 0
                            ELSE Min(fail_streak + 1, fs.max_consecutive_errors + 1)
          /\ fatal_seen' = (fatal_seen \/ o.c.result = "fatal")
    /\ UNCHANGED stop_called

\* time passes between two calls
Tick ==
    /\ UNCHANGED <<pubVars, appVars, auxVars>>
    /\ now < MaxTime
    /\ now' = now + 1
    /\ last' = NoCall
    /\ UNCHANGED <<fs, fail_streak, fatal_seen, stop_called>>

\* the caller calls stop()
FsStop ==
    /\ UNCHANGED <<pubVars, appVars, auxVars>>
    /\ fs.running
    /\ fs' = Stop(fs)
    /\ last' = OpLog("stop")
    /\ stop_called' = TRUE
    /\ UNCHANGED <<now, fail_streak, fatal_seen>>

\* the caller calls release()
FsRelease ==
    /\ UNCHANGED <<pubVars, appVars, auxVars>>
    /\ fs.running \/ fs.capture.held
    /\ fs' = Release(fs)
    /\ last' = [OpLog("release") EXCEPT !.edges =
                    IF fs.connection_state = "disconnected" THEN {}
                    ELSE {<<fs.connection_state, "disconnected">>}]
    /\ stop_called' = TRUE
    /\ UNCHANGED <<now, fail_streak, fatal_seen>>

NextFS == FsStart \/ FsReadFrame \/ Tick \/ FsStop \/ FsRelease

SpecFS == InitFS /\ [][NextFS]_vars

(***************************************************************************)
(* Frame source: properties                                                *)
(***************************************************************************)
\* the session URL is stale (or absent) at the entry of the latest call
StaleAtEntry ==
    \/ ~last.entry_held
    \/ last.entry_age >= fs.hls_session_seconds - fs.url_refresh_margin

\* C2: when max_consecutive_errors read_frame calls in a row have failed (no
\* frame returned in between), the call that is the max_consecutive_errors-th
\* failure raises FrameSourceError, whatever the reopen attempts did.
C2_FatalOnMaxthFailure ==
    (last.called /\ fail_streak = fs.max_consecutive_errors)
        => last.result = "fatal"

\* C3: a read_frame call made after the source has raised its fatal error
\* returns none without opening the stream or asking for a URL.
C3_NoneAfterFatal ==
    (last.called /\ last.pre_fatal)
        => /\ last.result = "none"
           /\ last.opens = 0
           /\ last.url_calls = 0

C10_WitnessFresh ==
    /\ last.called /\ last.entry_held /\ last.entry_age = 89
    /\ last.url_calls = 0 /\ last.result = "frame"

\* C11: a frame that read_frame returns comes from a decoder opened with the
\* session URL the source holds, also when the call has refreshed the URL.
C11_FrameFromCurrentUrl ==
    (last.called /\ last.result = "frame")
        => /\ fs.capture.held
           /\ fs.capture.url = fs.hls_url

\* the edges of the state table of the specification, self-loops left out
TableEdges ==
    { <<"disconnected", "connecting">>,
      <<"connected", "reconnecting">>,
      <<"connecting", "error">>, <<"connected", "error">>,
      <<"reconnecting", "error">>,
      <<"error", "reconnecting">>,
      <<"connecting", "connected">>, <<"reconnecting", "connected">> }
    \cup { <<st, "disconnected">> : st \in ConnectionState \ {"disconnected"} }

\* C12: every change of connection_state made by start, read_frame, stop or
\* release is an edge of the five-state table.
C12_ChangesAreTableEdges ==
    last.edges \subseteq TableEdges

\* C13: when stop() or release() has returned, no capture is held and the
\* connection state is disconnected.
C13_ClosedAfterStop ==
    last.op \in {"stop", "release"}
        => /\ ~fs.capture.held
           /\ fs.connection_state = "disconnected"

\* C14: a read_frame call made after stop() or release() returns none, does
\* not open the stream or ask for a URL and leaves the state disconnected.
C14_NoneAfterStop ==
    (last.called /\ last.entry_stopped)
        => /\ last.result = "none"
           /\ last.opens = 0
           /\ last.url_calls = 0
           /\ fs.connection_state = "disconnected"

\* C15: when read_frame has returned a frame, the consecutive-error counter
\* is zero and the backoff delay is the base delay, whatever the counter was
\* when the call was made; a failure that follows a frame leaves the counter
\* at one at most.
C15_FrameResetsCounter ==
    /\ (last.called /\ last.result = "frame")
          => /\ fs.consecutive_errors = 0
             /\ fs.current_backoff = fs.reconnect_delay
    /\ (last.called /\ fail_streak = 1 /\ last.result = "none")
          => fs.consecutive_errors <= 1

\* a frame read by a call entered with two failures counted
C15_Witness ==
    /\ last.called /\ last.result = "frame"
    /\ last.entry_errors = 2
    /\ fs.consecutive_errors = 0
    /\ fs.current_backoff = fs.reconnect_delay

(***************************************************************************)
(* SpecBackoff: the frame source of the backoff scenario: delays of 1 s to  *)
(* 10 s, multiplier 2, fatal at the third consecutive error                *)
(***************************************************************************)
BackoffBaseChoices == {1}
BackoffMaxChoices == {10}

InitBackoff ==
    /\ PubIdle
    /\ AuxIdle
    /\ AppIdle
    /\ \E session \in SessionSecondsChoices, m \in MaxErrorsChoices,
          b \in BackoffBaseChoices, mx \in BackoffMaxChoices :
           fs = FsNewWith(session, m, b, mx)
    /\ now = 0
    /\ last = NoCall
    /\ fail_streak = 0
    /\ fatal_seen = FALSE
    /\ stop_called = FALSE

SpecBackoff == InitBackoff /\ [][NextFS]_vars

RECURSIVE Pow(_, _)
Pow(b, e) == IF e = 0 THEN 1 ELSE b * Pow(b, e - 1)

\* the delay before jitter the n-th consecutive failure is to sleep
ScheduledDelay(s, n) ==
    Min(s.reconnect_delay * Pow(s.backoff_multiplier, n - 1),
        s.max_reconnect_delay)

\* C16: the n-th consecutive failure sleeps min(base * multiplier^(n-1), max)
\* before jitter, jittered by a factor in [0.8, 1.2] and never more than
\* 1.2 * max; and the failure on which the source becomes fatal (the third
\* one for max_consecutive_errors = 3) has slept its delay as well, 4 s
\* before jitter with base 1 s.
C16_BackoffSchedule ==
    last.called
        => /\ \A i \in 1..Len(last.sleeps) :
                 /\ last.sleeps[i].pre = ScheduledDelay(fs, last.sleeps[i].n)
                 /\ last.sleeps[i].tenths >= 8 * last.sleeps[i].pre
                 /\ last.sleeps[i].tenths <= 12 * last.sleeps[i].pre
                 /\ last.sleeps[i].tenths <= 12 * fs.max_reconnect_delay
           /\ (last.result = "fatal" /\ fail_streak = fs.max_consecutive_errors)
                 => \E i \in 1..Len(last.sleeps) :
                       /\ last.sleeps[i].n = fs.max_consecutive_errors
                       /\ last.sleeps[i].pre =
                              ScheduledDelay(fs, fs.max_consecutive_errors)

(***************************************************************************)
(* SpecApp: the supervisor (main thread, signal handler, shutdown) and the *)
(* camera worker threads of app.py.  read_frame is taken by its results,   *)
(* the ones SpecFS reaches.                                                *)
(***************************************************************************)
kdsVars == <<kds_buffer, kds_metrics, kds_calls, kds_accepted>>
threadVars == <<t_pc, t_batch, t_puts, t_flushes>>
sendVars == <<kds_cfg, pe>>

InitApp ==
    /\ PubIdle
    /\ AuxIdle
    /\ FsIdle
    /\ \E kind \in ConfigKinds : AppNew(kind)

\* the main thread executes its own code: it is not inside shutdown() and
\* the process has not exited
MainRuns == sd_pc = "idle" /\ main_pc # "exited"

\* main(): a missing configuration file is sys.exit(1)
AppMain ==
    /\ MainRuns
    /\ main_pc = "main"
    /\ IF cfg = "missing_file"
       THEN main_pc' = "exited" /\ exit_code' = 1
       ELSE main_pc' = "load" /\ UNCHANGED exit_code
    /\ UNCHANGED <<cfg, handlers_installed, signals, publishers, sw_i,
                   sw_started, workers>>
    /\ UNCHANGED <<sdVars, workerVars, fsVars, pubVars, auxVars>>

\* run(): load_configuration(); yaml.safe_load raises on malformed text and
\* load_config raises ValueError on a document that is not a mapping
LoadConfiguration ==
    /\ MainRuns
    /\ main_pc = "load"
    /\ main_pc' = IF cfg = "malformed_yaml" THEN "except" ELSE "init_publishers"
    /\ UNCHANGED <<cfg, exit_code, handlers_installed, signals, publishers,
                   sw_i, sw_started, workers>>
    /\ UNCHANGED <<sdVars, workerVars, fsVars, pubVars, auxVars>>

\* run(): initialize_publishers(); each publisher is constructed if it is
\* enabled and its constructor does not raise (the exception is logged)
InitializePublishers ==
    /\ MainRuns
    /\ main_pc = "init_publishers"
    /\ \E ps \in PublisherSets : publishers' = ps
    /\ main_pc' = "http"
    /\ UNCHANGED <<cfg, exit_code, handlers_installed, signals, sw_i,
                   sw_started, workers>>
    /\ UNCHANGED <<sdVars, workerVars, fsVars, pubVars, auxVars>>

\* run(): start_http_server() starts the daemon thread of the HTTP server
StartHttpServer ==
    /\ MainRuns
    /\ main_pc = "http"
    /\ main_pc' = "signals"
    /\ UNCHANGED <<cfg, exit_code, handlers_installed, signals, publishers,
                   sw_i, sw_started, workers>>
    /\ UNCHANGED <<sdVars, workerVars, fsVars, pubVars, auxVars>>

\* run(): setup_signal_handlers()
SetupSignalHandlers ==
    /\ MainRuns
    /\ main_pc = "signals"
    /\ handlers_installed' = TRUE
    /\ main_pc' = "start_workers"
    /\ UNCHANGED <<cfg, exit_code, signals, publishers, sw_i, sw_started,
                   workers>>
    /\ UNCHANGED <<sdVars, workerVars, fsVars, pubVars, auxVars>>

\* start_workers(): cameras.items() raises if cameras is not a mapping; the
\* loop ends after the last camera; otherwise worker.start() sets running,
\* starts the thread and sets worker_alive to 1 (CameraWorker.start)
StartWorkersStart ==
    /\ MainRuns
    /\ main_pc = "start_workers"
    /\ ~sw_started
    /\ IF cfg = "bad_cameras"
       THEN /\ main_pc' = "except"
            /\ UNCHANGED <<sw_started, w_running, w_pc, alive>>
       ELSE IF sw_i > Len(CameraOrder)
       THEN /\ main_pc' = "wait"
            /\ UNCHANGED <<sw_started, w_running, w_pc, alive>>
       ELSE /\ w_running' = [w_running EXCEPT ![CameraOrder[sw_i]] = TRUE]
            /\ w_pc' = [w_pc EXCEPT ![CameraOrder[sw_i]] = "init"]
            /\ alive' = [alive EXCEPT ![CameraOrder[sw_i]] = 1]
            /\ sw_started' = TRUE
            /\ UNCHANGED main_pc
    /\ UNCHANGED <<cfg, exit_code, handlers_installed, signals, publishers,
                   sw_i, workers>>
    /\ UNCHANGED <<w_fs, w_reads, w_fatal, w_init_failed, w_abandoned,
                   w_stop_called, publisher_failures, kds_submitted,
                   put_after_final_flush>>
    /\ UNCHANGED <<sdVars, fsVars, pubVars, detVars, sinkVars, ch, io, cmp>>

\* start_workers(): self.workers.append(worker)
StartWorkersAppend ==
    /\ MainRuns
    /\ main_pc = "start_workers"
    /\ sw_started
    /\ workers' = Append(workers, CameraOrder[sw_i])
    /\ sw_i' = sw_i + 1
    /\ sw_started' = FALSE
    /\ UNCHANGED <<cfg, main_pc, exit_code, handlers_installed, signals,
                   publishers>>
    /\ UNCHANGED <<sdVars, workerVars, fsVars, pubVars, auxVars>>

\* run(): while not self.shutdown_event.is_set(): time.sleep(1.0)
RunWait ==
    /\ MainRuns
    /\ main_pc = "wait"
    /\ shutdown_event
    /\ main_pc' = "finally"
    /\ UNCHANGED <<cfg, exit_code, handlers_installed, signals, publishers,
                   sw_i, sw_started, workers>>
    /\ UNCHANGED <<sdVars, workerVars, fsVars, pubVars, auxVars>>

\* shutdown(), its first lines: return if the event is set, else set it and
\* go on to stop the workers
ShutdownEnter(from) ==
    IF shutdown_event
    THEN UNCHANGED <<shutdown_event, sd_pc, sd_from, sd_i>>
    ELSE /\ shutdown_event' = TRUE
         /\ sd_pc' = "stop"
         /\ sd_from' = from
         /\ sd_i' = 1

\* run(): except Exception: self.shutdown()
RunExcept ==
    /\ MainRuns
    /\ main_pc = "except"
    /\ ShutdownEnter("except")
    /\ main_pc' = IF shutdown_event THEN "finally" ELSE main_pc
    /\ UNCHANGED <<cfg, exit_code, handlers_installed, signals, publishers,
                   sw_i, sw_started, workers>>
    /\ UNCHANGED <<shutdown_done, flush_calls, final_flush_done>>
    /\ UNCHANGED <<workerVars, fsVars, pubVars, auxVars>>

\* run() returns through its finally, main() returns and the interpreter
\* exits with status 0; the daemon threads end with it
RunFinally ==
    /\ MainRuns
    /\ main_pc = "finally"
    /\ main_pc' = "exited"
    /\ exit_code' = 0
    /\ UNCHANGED <<cfg, handlers_installed, signals, publishers, sw_i,
                   sw_started, workers>>
    /\ UNCHANGED <<sdVars, workerVars, fsVars, pubVars, auxVars>>

\* SIGTERM or SIGINT is delivered: the handler runs shutdown() on the main
\* thread, on top of whatever the main thread was doing
SignalHandler ==
    /\ handlers_installed
    /\ main_pc # "exited"
    /\ \E sig \in Signals \ signals : signals' = signals \cup {sig}
    /\ ShutdownEnter("signal")
    /\ UNCHANGED <<cfg, main_pc, exit_code, handlers_installed, publishers,
                   sw_i, sw_started, workers>>
    /\ UNCHANGED <<shutdown_done, flush_calls, final_flush_done>>
    /\ UNCHANGED <<workerVars, fsVars, pubVars, auxVars>>

\* shutdown(): for worker in self.workers: worker.stop(), up to the join
ShutdownStopWorker ==
    /\ sd_pc = "stop"
    /\ sd_i <= Len(workers)
    /\ IF ~w_running[workers[sd_i]]
       THEN /\ sd_i' = sd_i + 1
            /\ UNCHANGED <<sd_pc, w_running, w_stop_called>>
       ELSE /\ w_running' = [w_running EXCEPT ![workers[sd_i]] = FALSE]
            /\ w_stop_called' = w_stop_called \cup {workers[sd_i]}
            /\ sd_pc' = "join"
            /\ UNCHANGED sd_i
    /\ UNCHANGED <<shutdown_event, shutdown_done, sd_from, flush_calls,
                   final_flush_done>>
    /\ UNCHANGED <<w_pc, w_fs, w_reads, w_fatal, w_init_failed, w_abandoned,
                   publisher_failures, kds_submitted, put_after_final_flush>>
    /\ UNCHANGED <<mainVars, fsVars, pubVars, auxVars>>

\* CameraWorker.stop(), from the join on: thread.join(timeout=5.0) returns
\* because the thread has ended or because 5 s have passed; then the frame
\* source is stopped, the attribute set to None and worker_alive set to 0
ShutdownJoin ==
    /\ sd_pc = "join"
    /\ \/ /\ w_pc[workers[sd_i]] = "ended"
          /\ UNCHANGED w_abandoned
       \/ /\ w_pc[workers[sd_i]] \in BlockingPcs
          /\ w_abandoned' = w_abandoned \cup {workers[sd_i]}
    /\ w_fs' = [w_fs EXCEPT ![workers[sd_i]] = "none"]
    /\ alive' = [alive EXCEPT ![workers[sd_i]] = 0]
    /\ sd_i' = sd_i + 1
    /\ sd_pc' = "stop"
    /\ UNCHANGED <<shutdown_event, shutdown_done, sd_from, flush_calls,
                   final_flush_done>>
    /\ UNCHANGED <<w_pc, w_running, w_reads, w_fatal, w_init_failed,
                   w_stop_called, publisher_failures, kds_submitted,
                   put_after_final_flush>>
    /\ UNCHANGED <<mainVars, fsVars, pubVars, detVars, sinkVars, ch, io, cmp>>

\* a flush that puts a batch it could not send back into the buffer
FlushOutsRequeues(buffer, metrics, calls) ==
    IF buffer = <<>>
    THEN { [buffer |-> buffer, metrics |-> metrics, calls |-> calls,
            ret |-> TRUE] }
    ELSE { [buffer |-> IF o.ret = "true" THEN <<>> ELSE buffer,
            metrics |-> o.metrics, calls |-> o.calls,
            ret |-> (o.ret = "true")] :
             o \in SendBatchWithRetriesOuts(buffer, metrics, calls) }

\* KDSClient.flush() run by one thread without interruption
FlushOuts(buffer, metrics, calls) ==
    IF buffer = <<>>
    THEN { [buffer |-> buffer, metrics |-> metrics, calls |-> calls,
            ret |-> TRUE] }
    ELSE { [buffer |-> <<>>, metrics |-> o.metrics, calls |-> o.calls,
            ret |-> (o.ret = "true")] :
             o \in SendBatchWithRetriesOuts(buffer, metrics, calls) }

\* shutdown(), after the loop: flush() on the kds publisher if there is one,
\* get_metrics() on the kds, s3 and ddb publishers
ShutdownFlush ==
    /\ sd_pc = "stop"
    /\ sd_i > Len(workers)
    /\ IF "kds" \in publishers
       THEN /\ flush_calls' = [flush_calls EXCEPT !["kds"] = @ + 1]
            /\ \E o \in FlushOuts(kds_buffer, kds_metrics, kds_calls) :
                  /\ kds_buffer' = o.buffer
                  /\ kds_metrics' = o.metrics
                  /\ kds_calls' = o.calls
       ELSE UNCHANGED <<flush_calls, kds_buffer, kds_metrics, kds_calls>>
    /\ final_flush_done' = TRUE
    /\ sd_pc' = "done"
    /\ UNCHANGED <<shutdown_event, shutdown_done, sd_from, sd_i>>
    /\ UNCHANGED <<kds_accepted, threadVars, sendVars>>
    /\ UNCHANGED <<mainVars, workerVars, fsVars, auxVars>>

\* shutdown() returns: to the code the signal interrupted, or to run()'s
\* except clause, which falls through to finally
ShutdownReturn ==
    /\ sd_pc = "done"
    /\ sd_pc' = "idle"
    /\ shutdown_done' = TRUE
    /\ main_pc' = IF sd_from = "except" THEN "finally" ELSE main_pc
    /\ UNCHANGED <<cfg, exit_code, handlers_installed, signals, publishers,
                   sw_i, sw_started, workers>>
    /\ UNCHANGED <<shutdown_event, sd_from, sd_i, flush_calls,
                   final_flush_done>>
    /\ UNCHANGED <<workerVars, fsVars, pubVars, auxVars>>

\* how _initialize_frame_source and _initialize_detectors can end
InitOutcomes == {"ok", "source_raises", "detector_raises"}

\* _run(): the initialisation; an exception goes to the outer except clause
\* and on to finally
WorkerInit(c) ==
    /\ main_pc # "exited"
    /\ w_pc[c] = "init"
    /\ \E o \in InitOutcomes :
          /\ w_fs' = [w_fs EXCEPT ![c] = IF o = "source_raises" THEN @ ELSE "live"]
          /\ w_pc' = [w_pc EXCEPT ![c] = IF o = "ok" THEN "top" ELSE "finally"]
          /\ w_init_failed' = IF o = "ok" THEN w_init_failed
                              ELSE w_init_failed \cup {c}
    /\ UNCHANGED <<w_running, w_reads, w_fatal, w_abandoned, w_stop_called,
                   publisher_failures, kds_submitted, put_after_final_flush>>
    /\ UNCHANGED <<mainVars, sdVars, fsVars, pubVars, auxVars>>

\* _run(): while self.running
WorkerLoopTest(c) ==
    /\ main_pc # "exited"
    /\ w_pc[c] = "top"
    /\ w_pc' = [w_pc EXCEPT ![c] = IF w_running[c] THEN "read" ELSE "finally"]
    /\ UNCHANGED <<w_running, w_fs, w_reads, w_fatal, w_init_failed,
                   w_abandoned, w_stop_called, publisher_failures,
                   kds_submitted, put_after_final_flush>>
    /\ UNCHANGED <<mainVars, sdVars, fsVars, pubVars, auxVars>>

\* read_frame calls made so far by the workers CameraOrder[1..n]
RECURSIVE TotalReads(_)
TotalReads(n) == IF n = 0 THEN 0 ELSE w_reads[CameraOrder[n]] + TotalReads(n - 1)

\* what read_frame gives its caller: a frame, None, or FrameSourceError
ReadFrameResults == {"frame", "none", "fatal"}

\* _run(): result = self.frame_source.read_frame(); None is an
\* AttributeError when stop() has set frame_source to None
WorkerReadFrame(c) ==
    /\ main_pc # "exited"
    /\ w_pc[c] = "read"
    /\ TotalReads(Len(CameraOrder)) < MaxReads
    /\ w_reads' = [w_reads EXCEPT ![c] = @ + 1]
    /\ IF w_fs[c] = "none"
       THEN /\ w_pc' = [w_pc EXCEPT ![c] = "except"]
            /\ UNCHANGED w_fatal
       ELSE \E r \in ReadFrameResults :
              /\ w_pc' = [w_pc EXCEPT ![c] =
                             CASE r = "frame" -> "process"
                               [] r = "none"  -> "top"
                               [] r = "fatal" -> "except"]
              /\ w_fatal' = [w_fatal EXCEPT ![c] =
                                IF @ # "no" THEN "read_again"
                                ELSE IF r = "fatal" THEN "raised" ELSE "no"]
    /\ UNCHANGED <<w_running, w_fs, w_init_failed, w_abandoned, w_stop_called,
                   publisher_failures, kds_submitted, put_after_final_flush>>
    /\ UNCHANGED <<mainVars, sdVars, fsVars, pubVars, auxVars>>

\* a put_event that flushes only once the buffer holds more than batch_size
PutEventOutsLate(ev, buffer, metrics, calls) ==
    IF ~CreateEventEnvelopeOk(ev)
    THEN { [raised |-> TRUE, accepted |-> FALSE, buffer |-> buffer,
            metrics |-> metrics, calls |-> calls, ret |-> FALSE] }
    ELSE IF Len(buffer) + 1 > KdsBatchSize
    THEN { [raised |-> FALSE, accepted |-> TRUE, buffer |-> o.buffer,
            metrics |-> o.metrics, calls |-> o.calls, ret |-> o.ret] :
             o \in FlushOuts(Append(buffer, ev), metrics, calls) }
    ELSE { [raised |-> FALSE, accepted |-> TRUE, buffer |-> Append(buffer, ev),
            metrics |-> metrics, calls |-> calls, ret |-> TRUE] }

\* KDSClient.put_event(event, partition_key) run by one thread without
\* interruption: KeyError from _create_event_envelope, else append and flush
\* when the buffer is full
PutEventOuts(ev, buffer, metrics, calls) ==
    IF ~CreateEventEnvelopeOk(ev)
    THEN { [raised |-> TRUE, accepted |-> FALSE, buffer |-> buffer,
            metrics |-> metrics, calls |-> calls, ret |-> FALSE] }
    ELSE IF Len(buffer) + 1 >= KdsBatchSize
    THEN { [raised |-> FALSE, accepted |-> TRUE, buffer |-> o.buffer,
            metrics |-> o.metrics, calls |-> o.calls, ret |-> o.ret] :
             o \in FlushOuts(Append(buffer, ev), metrics, calls) }
    ELSE { [raised |-> FALSE, accepted |-> TRUE, buffer |-> Append(buffer, ev),
            metrics |-> metrics, calls |-> calls, ret |-> TRUE] }

\* what the detector pipeline returns for a frame: nothing (also when a
\* detector raises or has no detect method), dicts, or Event objects
DetectorOutputs == {"none", "dicts", "objects"}

\* _run(), from _run_detectors to _save_snapshots.  event["type"] raises
\* TypeError on an Event object.  _publish_events passes the dict
\* {"camera_id", "payload"} to put_event; its ddb branch looks up
\* _create_event_envelope on the KDS client, which has no such attribute
WorkerProcess(c) ==
    /\ main_pc # "exited"
    /\ w_pc[c] = "process"
    /\ \E d \in DetectorOutputs, s3ok \in BOOLEAN :
         LET ev == [camera |-> c, seq |-> w_reads[c], keys |-> WrapperKeys]
             viaKds == d = "dicts" /\ "kds" \in publishers
             noPut == [raised |-> FALSE, accepted |-> FALSE,
                       buffer |-> kds_buffer, metrics |-> kds_metrics,
                       calls |-> kds_calls, ret |-> TRUE]
         IN  /\ w_pc' = [w_pc EXCEPT ![c] = IF d = "objects" THEN "except" ELSE "top"]
             /\ \E o \in (IF viaKds
                          THEN PutEventOuts(ev, kds_buffer, kds_metrics, kds_calls)
                          ELSE { noPut }) :
                   /\ kds_buffer' = o.buffer
                   /\ kds_metrics' = o.metrics
                   /\ kds_calls' = o.calls
                   /\ kds_accepted' = IF o.accepted THEN kds_accepted \cup {ev}
                                      ELSE kds_accepted
                   /\ publisher_failures' =
                        [p \in Publishers |->
                           publisher_failures[p] +
                           (CASE p = "kds" -> IF o.raised THEN 1 ELSE 0
                              [] p = "ddb" -> IF d = "dicts" /\ "ddb" \in publishers
                                              THEN 1 ELSE 0
                              [] p = "s3"  -> IF d = "dicts" /\ "s3" \in publishers
                                                 /\ ~s3ok
                                              THEN 1 ELSE 0)]
             /\ kds_submitted' = IF viaKds THEN kds_submitted \cup {ev}
                                 ELSE kds_submitted
             /\ put_after_final_flush' =
                    (put_after_final_flush \/ (viaKds /\ final_flush_done))
    /\ UNCHANGED <<w_running, w_fs, w_reads, w_fatal, w_init_failed,
                   w_abandoned, w_stop_called>>
    /\ UNCHANGED <<mainVars, sdVars, fsVars, threadVars, sendVars, auxVars>>

\* the variant of the loop's except clause that shuts the application down
WorkerLoopExceptShutsDown(c) ==
    /\ main_pc # "exited"
    /\ w_pc[c] = "except"
    /\ w_pc' = [w_pc EXCEPT ![c] = "top"]
    /\ shutdown_event' = TRUE
    /\ UNCHANGED <<shutdown_done, sd_pc, sd_from, sd_i, flush_calls,
                   final_flush_done>>
    /\ UNCHANGED <<w_running, w_fs, w_reads, w_fatal, w_init_failed,
                   w_abandoned, w_stop_called, publisher_failures,
                   kds_submitted, put_after_final_flush>>
    /\ UNCHANGED <<mainVars, fsVars, pubVars, auxVars>>

\* _run(): except Exception inside the loop: log, time.sleep(1.0), and back
\* to the top of the loop
WorkerLoopExcept(c) ==
    /\ main_pc # "exited"
    /\ w_pc[c] = "except"
    /\ w_pc' = [w_pc EXCEPT ![c] = "top"]
    /\ UNCHANGED <<shutdown_event, shutdown_done, sd_pc, sd_from, sd_i,
                   flush_calls, final_flush_done>>
    /\ UNCHANGED <<w_running, w_fs, w_reads, w_fatal, w_init_failed,
                   w_abandoned, w_stop_called, publisher_failures,
                   kds_submitted, put_after_final_flush>>
    /\ UNCHANGED <<mainVars, fsVars, pubVars, auxVars>>

\* _run(): finally: stop the frame source if there is one; the thread ends
WorkerFinally(c) ==
    /\ main_pc # "exited"
    /\ w_pc[c] = "finally"
    /\ w_fs' = [w_fs EXCEPT ![c] = IF @ = "none" THEN "none" ELSE "stopped"]
    /\ w_pc' = [w_pc EXCEPT ![c] = "ended"]
    /\ UNCHANGED <<w_running, w_reads, w_fatal, w_init_failed, w_abandoned,
                   w_stop_called, publisher_failures, kds_submitted,
                   put_after_final_flush>>
    /\ UNCHANGED <<mainVars, sdVars, fsVars, pubVars, auxVars>>

NextApp ==
    \/ AppMain
    \/ LoadConfiguration
    \/ InitializePublishers
    \/ StartHttpServer
    \/ SetupSignalHandlers
    \/ StartWorkersStart
    \/ StartWorkersAppend
    \/ RunWait
    \/ RunExcept
    \/ RunFinally
    \/ SignalHandler
    \/ ShutdownStopWorker
    \/ ShutdownJoin
    \/ ShutdownFlush
    \/ ShutdownReturn
    \/ \E c \in Cameras :
          \/ WorkerInit(c)
          \/ WorkerLoopTest(c)
          \/ WorkerReadFrame(c)
          \/ WorkerProcess(c)
          \/ WorkerLoopExcept(c)
          \/ WorkerFinally(c)

SpecApp == InitApp /\ [][NextApp]_vars

(***************************************************************************)
(* Application: properties                                                 *)
(***************************************************************************)
\* the worker's thread has been started and has not ended
ThreadAlive(c) == w_pc[c] \notin {"unstarted", "ended"}

\* C4: a worker whose read_frame raised the fatal FrameSourceError never
\* calls read_frame again.
C4_NoReadAfterFatal ==
    \A c \in Cameras : w_fatal[c] # "read_again"

\* C5: errors inside a worker stop no other worker and do not shut the
\* process down: a running flag is cleared only by the stop() that shutdown
\* calls, the shutdown event is set only after a signal or an exception of
\* the main thread, and the process exits only after the event is set or
\* because the configuration file is missing.
C5_WorkerErrorsStayLocal ==
    /\ \A c \in Cameras :
          (w_pc[c] # "unstarted" /\ ~w_running[c]) => c \in w_stop_called
    /\ w_stop_called # {} => shutdown_event
    /\ shutdown_event => (signals # {} \/ cfg # "valid")
    /\ main_pc = "exited" => (shutdown_event \/ cfg = "missing_file")

\* one worker has had the fatal error of its frame source, the other one has
\* failed to initialise and has ended, and the first is still running with no
\* shutdown under way
C5_Witness ==
    \E c, d \in Cameras :
        /\ c # d
        /\ w_fatal[c] = "raised" /\ w_pc[c] = "top" /\ w_running[c]
        /\ d \in w_init_failed /\ w_pc[d] = "ended"
        /\ ~shutdown_event
        /\ main_pc = "wait"

\* C6: when shutdown has returned with the three publishers constructed,
\* flush has been called exactly once on each of them.
C6_FlushOnceOnEachPublisher ==
    (shutdown_done /\ publishers = Publishers)
        => \A p \in Publishers : flush_calls[p] = 1

\* C7: once shutdown has returned, every worker thread still alive has had
\* its running flag cleared, so that it leaves its loop at the next test.
C7_EveryLiveWorkerToldToStop ==
    shutdown_done => \A c \in Cameras : ThreadAlive(c) => ~w_running[c]

\* the events of kds_submitted that some put_records call holds
SubmittedAndSent == { ev \in kds_submitted : TimesSent(ev) >= 1 }

C9_ExitStatus ==
    main_pc = "exited"
        => /\ cfg # "valid" => exit_code = 1
           /\ exit_code = 0 => shutdown_event


(***************************************************************************)
(* SpecSend: one caller submitting a list of events with put_events to a   *)
(* new client.  The service is healthy (every put_records succeeds) or     *)
(* faulty (any answer to any call).                                        *)
(***************************************************************************)
\* batch_size and max_retries arguments, and the lengths of the event list
BatchSizeArgs == {1, 2, 3, 600}
FaultyBatchSizeArgs == {2, 3}
MaxRetriesChoices == {1, 2}
EventCountChoices == {1, 2, 3}

\* the dicts a caller hands over: detector events, or the dicts
\* CameraWorker._publish_events builds around them
EventShapes == {EventKeys, WrapperKeys}

\* the caller's events: one camera, in the order of their timestamps
SubmittedEvents(n, keys) ==
    [i \in 1..n |-> [camera |-> "cam-a", seq |-> i, keys |-> keys]]

\* the clients of the model: any batch size against a healthy service, the
\* batch sizes that make retries of several records against a faulty one
SendClients ==
    { KdsNew(b, r, "healthy") : b \in BatchSizeArgs, r \in MaxRetriesChoices }
        \cup
    { KdsNew(b, r, "faulty") : b \in FaultyBatchSizeArgs,
                               r \in MaxRetriesChoices }

InitSend ==
    /\ kds_cfg \in SendClients
    /\ pe = NoPutEvents
    /\ KdsEmpty
    /\ AuxIdle
    /\ FsIdle
    /\ AppIdle

\* put_events is called: success = True
PutEventsCall ==
    /\ pe.pc = "idle"
    /\ \E n \in EventCountChoices, keys \in EventShapes :
          pe' = [pe EXCEPT !.pc = "loop", !.events = SubmittedEvents(n, keys)]
    /\ UNCHANGED <<kds_cfg, kds_buffer, kds_metrics, kds_calls, kds_accepted,
                   threadVars, fsVars, appVars, auxVars>>

\* one turn of the for loop: put_event(event, partition_key), and success
\* becomes False when it returns False; an exception of put_event leaves
\* put_events.  A flush that sent a batch is noted with what it returned
PutEventsStep ==
    /\ pe.pc = "loop"
    /\ pe.i <= Len(pe.events)
    /\ \E o \in PutEventOuts(pe.events[pe.i], kds_buffer, kds_metrics,
                              kds_calls) :
          /\ kds_buffer' = o.buffer
          /\ kds_metrics' = o.metrics
          /\ kds_calls' = o.calls
          /\ kds_accepted' = IF o.accepted
                             THEN kds_accepted \cup {pe.events[pe.i]}
                             ELSE kds_accepted
          /\ pe' = [pe EXCEPT !.pc = IF o.raised THEN "raised" ELSE @,
                              !.i = IF o.raised THEN @ ELSE @ + 1,
                              !.success = @ /\ o.ret,
                              !.flushes = IF o.calls # kds_calls
                                          THEN Append(@, o.ret) ELSE @]
    /\ UNCHANGED <<kds_cfg, threadVars, fsVars, appVars, auxVars>>

\* after the loop: flush the remaining events and return success
PutEventsFlush ==
    /\ pe.pc = "loop"
    /\ pe.i > Len(pe.events)
    /\ \E o \in FlushOuts(kds_buffer, kds_metrics, kds_calls) :
          /\ kds_buffer' = o.buffer
          /\ kds_metrics' = o.metrics
          /\ kds_calls' = o.calls
          /\ pe' = [pe EXCEPT !.pc = "done",
                              !.success = @ /\ o.ret,
                              !.flushes = IF o.calls # kds_calls
                                          THEN Append(@, o.ret) ELSE @]
    /\ UNCHANGED <<kds_cfg, kds_accepted, threadVars, fsVars, appVars, auxVars>>

NextSend ==
    \/ PutEventsCall
    \/ PutEventsStep
    \/ PutEventsFlush

SpecSend == InitSend /\ [][NextSend]_vars

\* the Records of the put_records calls from the i-th on, one after another
RECURSIVE SentFrom(_)
SentFrom(i) ==
    IF i > Len(kds_calls) THEN <<>>
    ELSE kds_calls[i].records \o SentFrom(i + 1)

\* the smallest number of batches of b records that hold n records
CeilDiv(n, b) == (n + b - 1) \div b

\* C17: once put_events has returned on a healthy service, put_records was
\* called exactly ceil(N / B) times, no call carried more than B records
\* (B at most 500), and the calls' records one after another are the
\* submitted events in their order
C17_BatchesSplitInOrder ==
    (pe.pc = "done" /\ kds_cfg.service = "healthy")
        => /\ Len(kds_calls) = CeilDiv(Len(pe.events), kds_cfg.batch_size)
           /\ kds_cfg.batch_size <= KDS_BATCH_LIMIT
           /\ \A i \in 1..Len(kds_calls) :
                 Len(kds_calls[i].records) <= kds_cfg.batch_size
           /\ SentFrom(1) = pe.events
           /\ pe.success

\* three events with batch size 2 went out as [1, 2] and then [3]
C17_Witness ==
    /\ pe.pc = "done"
    /\ kds_cfg.service = "healthy"
    /\ kds_cfg.batch_size = 2
    /\ Len(pe.events) = 3
    /\ Len(kds_calls) = 2
    /\ kds_calls[1].records = SubSeq(pe.events, 1, 2)
    /\ kds_calls[2].records = SubSeq(pe.events, 3, 3)

\* the records of a put_records call the service accepted, in request order
\* (those whose result carries no ErrorCode), from position i on
RECURSIVE AcceptedOf(_, _)
AcceptedOf(call, i) ==
    IF call.answer \notin {"ok"} \cup PartialAnswers \/ i > Len(call.records)
    THEN <<>>
    ELSE IF ErrorCodeAt(call.answer, i)
    THEN AcceptedOf(call, i + 1)
    ELSE <<call.records[i]>> \o AcceptedOf(call, i + 1)

\* the records the service accepted over the calls from the i-th on, in the
\* order it accepted them
RECURSIVE AcceptedFrom(_)
AcceptedFrom(i) ==
    IF i > Len(kds_calls) THEN <<>>
    ELSE AcceptedOf(kds_calls[i], 1) \o AcceptedFrom(i + 1)

\* C18: for one partition key the service accepts the records in the order
\* in which their events were submitted to put_event, also when a batch is
\* partially rejected and its failed records are retried
C18_AcceptedInSubmissionOrder ==
    LET acc == AcceptedFrom(1)
    IN  \A i, j \in 1..Len(acc) :
          (i < j /\ acc[i].camera = acc[j].camera) => acc[i].seq < acc[j].seq

\* r is one of the records of seq; the position of r in seq
InSeq(r, seq) == \E k \in 1..Len(seq) : seq[k] = r
PosIn(r, seq) == CHOOSE k \in 1..Len(seq) : seq[k] = r

\* the i-th call was answered with FailedRecordCount > 0 and the same batch
\* was sent again
RetriedAfterRejection(i) ==
    /\ i < Len(kds_calls)
    /\ kds_calls[i].answer \in PartialAnswers
    /\ kds_calls[i + 1].batch = kds_calls[i].batch

\* C19: after an answer with FailedRecordCount > 0 the next send of the
\* batch holds exactly the records whose result carried an ErrorCode, each
\* once and in their relative order, and a record the service accepted is
\* in no later send
C19_RetryExactlyTheRejected ==
    /\ \A i \in 1..Len(kds_calls) :
          RetriedAfterRejection(i) =>
            LET sent == kds_calls[i].records
                again == kds_calls[i + 1].records
            IN  /\ \A k \in 1..Len(sent) :
                      ErrorCodeAt(kds_calls[i].answer, k) <=> InSeq(sent[k], again)
                /\ \A m \in 1..Len(again) : InSeq(again[m], sent)
                /\ \A m, n \in 1..Len(again) :
                      m < n => PosIn(again[m], sent) < PosIn(again[n], sent)
    /\ \A i, j \in 1..Len(kds_calls) :
          i < j => \A k \in 1..Len(kds_calls[i].records) :
                     InSeq(kds_calls[i].records[k], AcceptedOf(kds_calls[i], 1))
                         => ~InSeq(kds_calls[i].records[k], kds_calls[j].records)

\* a request of three records had the first and the third rejected and the
\* second accepted, and the next request held the first and the third
C19_Witness ==
    /\ RetriedAfterRejection(1)
    /\ Len(kds_calls[1].records) = 3
    /\ kds_calls[1].answer = "fail_odd"
    /\ kds_calls[2].records =
           <<kds_calls[1].records[1], kds_calls[1].records[3]>>

\* the i-th call is followed by another send of the same batch
SentAgain(i) ==
    /\ i < Len(kds_calls)
    /\ kds_calls[i + 1].batch = kds_calls[i].batch

\* C20: a put_records call that raised a ClientError is followed by another
\* send of its batch exactly if the code is one of the two throttling codes
\* and attempt < max_retries, and that send holds the same records; after any
\* other ClientError the batch is over: nothing of it is sent again, all its
\* records are added to the failed metric, and the flush returns False
C20_RetryOnlyThrottling ==
    \A i \in 1..Len(kds_calls) :
        LET call == kds_calls[i]
        IN  /\ call.answer \in {"throttle", "client_error"}
                => /\ SentAgain(i) <=> (call.answer = "throttle"
                                         /\ call.attempt < kds_cfg.max_retries)
                   /\ SentAgain(i) => kds_calls[i + 1].records = call.records
            /\ call.answer = "client_error"
                => /\ call.failed = Len(call.records)
                   /\ call.ret = "false"
                   /\ call.batch <= Len(pe.flushes) => ~pe.flushes[call.batch]
                   /\ \A j \in 1..Len(kds_calls) :
                         j > i => \A k \in 1..Len(call.records) :
                                    ~InSeq(call.records[k], kds_calls[j].records)
                   /\ \A k \in 1..Len(call.records) :
                         ~InSeq(call.records[k], kds_buffer)

\* a batch of two records was throttled, sent again unchanged, and then
\* ended by another client error; put_events went on and returned False
C20_Witness ==
    /\ pe.pc = "done"
    /\ ~pe.success
    /\ Len(kds_calls) >= 2
    /\ kds_calls[1].answer = "throttle"
    /\ Len(kds_calls[1].records) = 2
    /\ kds_calls[2].answer = "client_error"
    /\ kds_calls[2].batch = kds_calls[1].batch
    /\ kds_calls[2].records = kds_calls[1].records
    /\ pe.flushes[1] = FALSE
    /\ kds_metrics.failed >= 2

\* the number of records of the batches _send_batch_with_retries was called
\* with, over the calls from the i-th on
RECURSIVE FlushedFrom(_)
FlushedFrom(i) ==
    IF i > Len(kds_calls) THEN 0
    ELSE (IF kds_calls[i].attempt = 0 THEN Len(kds_calls[i].records) ELSE 0)
             + FlushedFrom(i + 1)

\* C21: whenever _send_batch_with_retries has returned, each record of the
\* batches it was given is counted once, in published or in failed
C21_EachRecordCountedOnce ==
    kds_metrics.published + kds_metrics.failed = FlushedFrom(1)

\* _send_batch_with_retries has given up a batch: its records are dropped
DroppedBatch == \E i \in 1..Len(kds_calls) : kds_calls[i].ret = "false"

\* C22: a put_event whose batch was given up is counted by its caller.
\* CameraWorker._publish_events increments publisher_failures{sink="kds"} in
\* its except clause only, so it counts the put_event calls that raise: the
\* put_event that dropped a batch has raised
C22_DroppedBatchIsCounted ==
    (pe.pc \in {"loop", "raised"} /\ DroppedBatch) => pe.pc = "raised"


(***************************************************************************)
(* SpecConfirm: temporal_confirm called again and again on one             *)
(* TemporalBuffer that starts empty, as validate_temporal_confirm does.    *)
(***************************************************************************)
\* maxlen of the buffer and min_confirmations
ConfirmWindowChoices == {1, 2, 3, 4}
MinConfirmationsChoices == {1, 2, 3}
\* the default iou_threshold of temporal_confirm, 0.5, in tenths
CONFIRM_IOU_TENTHS == 5
\* the confidence of the detections, in tenths
ConfTenths == 9
\* temporal_confirm calls in one behaviour
MaxCalls == 4

InitConfirm ==
    /\ tc \in { TcNew(w, k) : w \in ConfirmWindowChoices,
                               k \in MinConfirmationsChoices }
    /\ wd = WeaponDetectorNew(FALSE, DEFAULT_TEMPORAL_WINDOW,
                              DEFAULT_TEMPORAL_MIN_CONF, DEFAULT_DEDUP_WINDOW)
    /\ SinkIdle
    /\ MiscIdle
    /\ PubIdle
    /\ FsIdle
    /\ AppIdle

\* confirmed = temporal_confirm(buffer, label, bbox, conf, min_confirmations)
TemporalConfirmCall ==
    /\ Len(tc.calls) < MaxCalls
    /\ \E label \in Labels, bbox \in Boxes :
          LET r == TemporalConfirm(tc.buffer, label, bbox, ConfTenths,
                                   tc.min_confirmations, CONFIRM_IOU_TENTHS,
                                   NoFrameIdx)
          IN  tc' = [tc EXCEPT !.buffer = r.buffer,
                               !.calls = Append(@, [label |-> label,
                                                    bbox |-> bbox,
                                                    result |-> r.result])]
    /\ UNCHANGED <<wd, sinkVars, miscVars, fsVars,
                   pubVars, appVars>>

NextConfirm == TemporalConfirmCall

SpecConfirm == InitConfirm /\ [][NextConfirm]_vars

\* the detections of the calls share a label and overlap pairwise above
\* the threshold
PairwiseSimilar(calls) ==
    \A i, j \in 1..Len(calls) :
        /\ calls[i].label = calls[j].label
        /\ IouAbove(calls[i].bbox, calls[j].bbox, CONFIRM_IOU_TENTHS)

\* C23: with min_confirmations = k and a window of at least k, of the first
\* k calls with pairwise similar detections on a buffer that started empty
\* the k-th returns true and the ones before it return false
C23_KthCallConfirms ==
    (/\ tc.buffer.maxlen >= tc.min_confirmations
     /\ Len(tc.calls) <= tc.min_confirmations
     /\ PairwiseSimilar(tc.calls))
        => \A i \in 1..Len(tc.calls) :
              tc.calls[i].result <=> (i = tc.min_confirmations)

\* the three boxes of validate_temporal_confirm with min_confirmations = 3:
\* false, false, true
C23_Witness ==
    /\ tc.min_confirmations = 3
    /\ tc.buffer.maxlen >= 3
    /\ Len(tc.calls) = 3
    /\ tc.calls[1].bbox = BoxA /\ ~tc.calls[1].result
    /\ tc.calls[2].bbox = BoxB /\ ~tc.calls[2].result
    /\ tc.calls[3].bbox = BoxC /\ tc.calls[3].result
    /\ PairwiseSimilar(tc.calls)


(***************************************************************************)
(* SpecDet: one WeaponDetector fed frame after frame.  A frame is given by *)
(* the detections run_yolo returns on it, in the order it returns them.    *)
(***************************************************************************)
\* a detection (label, conf, bbox)
Det(label, bbox) == [label |-> label, bbox |-> bbox, conf |-> ConfTenths]

\* what a frame can show
FrameDetections ==
    { <<>>,
      <<Det("gun", BoxA)>>,
      <<Det("gun", BoxA), Det("gun", BoxB)>>,
      <<Det("gun", BoxA), Det("gun", BoxFar), Det("knife", BoxA)>>,
      <<Det("knife", BoxFar)>> }

\* the configurations: the defaults with either confirmation method, and a
\* detector that confirms at once and remembers two frames
DetectorConfigs ==
    { WeaponDetectorNew(tb, DEFAULT_TEMPORAL_WINDOW,
                        DEFAULT_TEMPORAL_MIN_CONF, DEFAULT_DEDUP_WINDOW) :
        tb \in BOOLEAN }
        \cup
    { WeaponDetectorNew(tb, DEFAULT_TEMPORAL_WINDOW, 1, 2) : tb \in BOOLEAN }

\* frames in one behaviour
MaxFrames == 5

InitDet ==
    /\ wd \in DetectorConfigs
    /\ tc = TcNew(DEFAULT_TEMPORAL_WINDOW, DEFAULT_TEMPORAL_MIN_CONF)
    /\ SinkIdle
    /\ MiscIdle
    /\ PubIdle
    /\ FsIdle
    /\ AppIdle

\* events = detector.process(frame, ts_ms, ctx)
ProcessFrame ==
    /\ wd.frame_count < MaxFrames
    /\ \E detections \in FrameDetections :
          wd' = WeaponProcess(wd, detections)
    /\ UNCHANGED <<tc, sinkVars, miscVars, fsVars,
                   pubVars, appVars>>

NextDet == ProcessFrame

SpecDet == InitDet /\ [][NextDet]_vars

\* every frame so far showed the one detection det and nothing else
OnlySaw(det) ==
    \A f \in 1..Len(wd.frames) :
        /\ Len(wd.frames[f]) = 1
        /\ wd.frames[f][1].label = det.label
        /\ wd.frames[f][1].bbox = det.bbox

\* the frames on which process returned an event
EmittingFrames ==
    { f \in 1..Len(wd.frames) :
        \E i \in 1..Len(wd.frames[f]) : wd.frames[f][i].emitted }

\* C24: with min_confirmations = 3 and dedup_window = 30, whichever the
\* confirmation method, a detector that sees the same label and bbox on
\* every frame has emitted an event on frame 3 and on no other frame
C24_OneEventOnFrameThree ==
    (/\ wd.temporal_min_conf = 3
     /\ wd.dedup_window = 30
     /\ OnlySaw(Det("gun", BoxA)))
        => EmittingFrames = { f \in {3} : f <= Len(wd.frames) }

\* the frames among the last temporal_window frames up to frame f that show
\* a detection of the label overlapping bbox by at least temporal_iou
SightingFrames(f, label, bbox) ==
    { g \in Max(1, f - wd.temporal_buffer.maxlen + 1)..f :
        \E j \in 1..Len(wd.frames[g]) :
            /\ wd.frames[g][j].label = label
            /\ IouAtLeast(bbox, wd.frames[g][j].bbox, wd.temporal_iou) }

\* C25: a detection is confirmed at a frame only if its label was seen
\* overlapping it in at least min_confirmations different frames among the
\* last W frames, the current one included
C25_ConfirmedOnlyAfterKFrames ==
    \A f \in 1..Len(wd.frames) : \A i \in 1..Len(wd.frames[f]) :
        wd.frames[f][i].confirmed
            => Cardinality(SightingFrames(f, wd.frames[f][i].label,
                                          wd.frames[f][i].bbox))
                   >= wd.temporal_min_conf

\* an event with the label and the grid cell of the i-th detection of frame
\* f was emitted before it, fewer than dedup_window frames earlier
RecentlyEmitted(f, i) ==
    \E g \in 1..f : \E j \in 1..Len(wd.frames[g]) :
        /\ g < f \/ j < i
        /\ wd.frames[g][j].emitted
        /\ wd.frames[g][j].label = wd.frames[f][i].label
        /\ BboxToGrid(wd.frames[g][j].bbox, wd.dedup_grid_size)
               = BboxToGrid(wd.frames[f][i].bbox, wd.dedup_grid_size)
        /\ f - g < wd.dedup_window

\* C26: a confirmed candidate is dropped as a duplicate exactly if an event
\* with its label and its grid cell was emitted fewer than dedup_window
\* frames earlier, whatever was emitted in between
C26_DroppedIffRecentlyEmitted ==
    \A f \in 1..Len(wd.frames) : \A i \in 1..Len(wd.frames[f]) :
        wd.frames[f][i].confirmed
            => (~wd.frames[f][i].emitted <=> RecentlyEmitted(f, i))


(***************************************************************************)
(* SpecEnvelope: _create_event_envelope applied to two detector events.    *)
(***************************************************************************)
\* the fields of the events
EventCameras == {"cam-a", "cam-b"}
EventTypes == {"weapon", "fire"}
EventLabels == {"gun", "knife"}
EventTimes == {1234, 1876, 2001}
EventConfs == {5, 9}
EventBoxes == {BoxA, BoxFar}
\* the keys of extras
EventExtras == {{}, {"frame_count", "det_hash"}}

DetectorEvents ==
    [camera_id : EventCameras, type : EventTypes, label : EventLabels,
     ts_ms : EventTimes, conf : EventConfs, bbox : EventBoxes,
     extras : EventExtras]

\* hashlib.sha1(...).hexdigest(): the digest of a string, taken to be
\* different for different strings
Sha1(str) == <<"sha1", str>>

\* an event id made of the timestamp itself
GenerateEventIdOfInstant(camera_id, event_type, label, ts_ms) ==
    Sha1(camera_id \o ":" \o event_type \o ":" \o label \o ":"
             \o ToString(ts_ms))

\* _generate_event_id: ts_bucket = ts_ms // 1000 and the digest of
\* f"{camera_id}:{event_type}:{label}:{ts_bucket}"
GenerateEventId(camera_id, event_type, label, ts_ms) ==
    Sha1(camera_id \o ":" \o event_type \o ":" \o label \o ":"
             \o ToString(ts_ms \div 1000))

\* the default producer_version
PRODUCER_VERSION == "kvs-infer/1.0"

\* _create_event_envelope
CreateEventEnvelope(event, producer_version) ==
    [event_id |-> GenerateEventId(event.camera_id, event.type, event.label,
                                  event.ts_ms),
     camera_id |-> event.camera_id,
     producer |-> producer_version,
     payload |-> event]

InitEnvelope ==
    /\ eid \in [events : DetectorEvents \X DetectorEvents,
                 envelopes : {<<>>}]
    /\ ddb = <<>>
    /\ s3 = <<>>
    /\ DetIdle
    /\ MiscIdle
    /\ PubIdle
    /\ FsIdle
    /\ AppIdle

\* the two events are wrapped
MakeEnvelopes ==
    /\ eid.envelopes = <<>>
    /\ eid' = [eid EXCEPT !.envelopes =
                  <<CreateEventEnvelope(eid.events[1], PRODUCER_VERSION),
                    CreateEventEnvelope(eid.events[2], PRODUCER_VERSION)>>]
    /\ UNCHANGED <<ddb, s3, detVars, miscVars, fsVars,
                   pubVars, appVars>>

NextEnvelope == MakeEnvelopes

SpecEnvelope == InitEnvelope /\ [][NextEnvelope]_vars

\* the two events agree on camera_id, type and label
SameSubject ==
    /\ eid.events[1].camera_id = eid.events[2].camera_id
    /\ eid.events[1].type = eid.events[2].type
    /\ eid.events[1].label = eid.events[2].label

\* the one-second bucket of an event
Bucket(event) == event.ts_ms \div 1000

\* C27: two events that agree on camera_id, type, label and the one-second
\* bucket get the same event_id whatever their conf, bbox and extras, and two that
\* agree on camera_id, type and label but not on the bucket get different
\* ids
C27_EventIdByBucket ==
    (eid.envelopes # <<>> /\ SameSubject)
        => (eid.envelopes[1].event_id = eid.envelopes[2].event_id
               <=> Bucket(eid.events[1]) = Bucket(eid.events[2]))

\* ts_ms 1234 and 1876 with different conf, bbox and extras: the same id
C27_Witness ==
    /\ eid.envelopes # <<>>
    /\ SameSubject
    /\ eid.events[1].ts_ms = 1234
    /\ eid.events[2].ts_ms = 1876
    /\ eid.events[1].conf # eid.events[2].conf
    /\ eid.events[1].bbox # eid.events[2].bbox
    /\ eid.events[1].extras # eid.events[2].extras
    /\ eid.envelopes[1].event_id = eid.envelopes[2].event_id


(***************************************************************************)
(* SpecItem: DDBWriter._prepare_item applied to an event envelope.         *)
(* A Python value is a record tagged with its type: a float, an int, a     *)
(* str, a Decimal, a list (its items) or a dict (its keys and, in the same *)
(* order, its values).                                                     *)
(***************************************************************************)
PyFloat(tenths) == [t |-> "float", v |-> tenths]
PyDecimal(tenths) == [t |-> "Decimal", v |-> tenths]
PyInt(n) == [t |-> "int", v |-> n]
PyStr(str) == [t |-> "str", v |-> str]
PyList(items) == [t |-> "list", items |-> items]
PyDict(keys, vals) == [t |-> "dict", keys |-> keys, vals |-> vals]
\* a key the dict does not have
PyAbsent == [t |-> "absent"]

\* a conversion that leaves the items of lists as they are
RECURSIVE ConvertFloatsOutsideLists(_)
ConvertFloatsOutsideLists(obj) ==
    IF obj.t = "float" THEN PyDecimal(obj.v)
    ELSE IF obj.t = "dict"
    THEN PyDict(obj.keys, [i \in 1..Len(obj.vals) |->
                              ConvertFloatsOutsideLists(obj.vals[i])])
    ELSE obj

\* _convert_floats_to_decimal: Decimal(str(obj)) has the value the float
\* prints as
RECURSIVE ConvertFloatsToDecimal(_)
ConvertFloatsToDecimal(obj) ==
    IF obj.t = "float" THEN PyDecimal(obj.v)
    ELSE IF obj.t = "dict"
    THEN PyDict(obj.keys, [i \in 1..Len(obj.vals) |->
                              ConvertFloatsToDecimal(obj.vals[i])])
    ELSE IF obj.t = "list"
    THEN PyList([i \in 1..Len(obj.items) |->
                    ConvertFloatsToDecimal(obj.items[i])])
    ELSE obj

\* _convert_decimal_to_float
RECURSIVE ConvertDecimalToFloat(_)
ConvertDecimalToFloat(obj) ==
    IF obj.t = "Decimal" THEN PyFloat(obj.v)
    ELSE IF obj.t = "dict"
    THEN PyDict(obj.keys, [i \in 1..Len(obj.vals) |->
                              ConvertDecimalToFloat(obj.vals[i])])
    ELSE IF obj.t = "list"
    THEN PyList([i \in 1..Len(obj.items) |->
                    ConvertDecimalToFloat(obj.items[i])])
    ELSE obj

\* obj is a float or holds one at some depth
RECURSIVE HoldsFloat(_)
HoldsFloat(obj) ==
    IF obj.t = "float" THEN TRUE
    ELSE IF obj.t = "dict"
    THEN \E i \in 1..Len(obj.vals) : HoldsFloat(obj.vals[i])
    ELSE IF obj.t = "list"
    THEN \E i \in 1..Len(obj.items) : HoldsFloat(obj.items[i])
    ELSE FALSE

\* seconds in a day, and the clock read by time.time() in _prepare_item
SECONDS_PER_DAY == 86400
ItemClock == 1000
\* ttl_days not configured
NoTtl == -1

\* the item dict of _prepare_item before its conversion
FlattenedItem(event, ttl_days) ==
    LET payload == event.payload
        keys == <<"event_id", "camera_id", "producer", "ts_ms", "type",
                  "label", "conf", "bbox", "extras">>
        extras == IF payload.extras = PyAbsent THEN PyDict(<<>>, <<>>)
                  ELSE payload.extras
        vals == <<event.event_id, event.camera_id, event.producer,
                  payload.ts_ms, payload.type, payload.label, payload.conf,
                  payload.bbox, extras>>
    IN  IF ttl_days = NoTtl THEN PyDict(keys, vals)
        ELSE PyDict(Append(keys, "ttl"),
                    Append(vals, PyInt(ItemClock + ttl_days * SECONDS_PER_DAY)))

\* a _prepare_item whose conversion leaves the items of lists as they are
PrepareItemKeepsLists(event, ttl_days) ==
    ConvertFloatsOutsideLists(FlattenedItem(event, ttl_days))

\* DDBWriter._prepare_item
PrepareItem(event, ttl_days) ==
    ConvertFloatsToDecimal(FlattenedItem(event, ttl_days))

\* the extras of the payloads: none, the empty dict, those of an ALPR
\* event, a list of mixed values, and floats inside nested dicts and lists
ExtrasPlate ==
    PyDict(<<"text", "ocr_conf", "frame_count">>,
           <<PyStr("ABC123"), PyFloat(8), PyInt(3)>>)
ExtrasList ==
    PyDict(<<"scores">>, <<PyList(<<PyFloat(5), PyInt(1), PyStr("x")>>)>>)
ExtrasNested ==
    PyDict(<<"nested">>,
           <<PyDict(<<"inner">>,
                    <<PyList(<<PyList(<<PyFloat(7)>>),
                               PyDict(<<"deep">>, <<PyFloat(2)>>)>>)>>)>>)
ExtrasChoices ==
    {PyAbsent, PyDict(<<>>, <<>>), ExtrasPlate, ExtrasList, ExtrasNested}

\* bounding boxes as lists of floats, in tenths
BboxChoices ==
    { PyList(<<PyFloat(1000), PyFloat(1000), PyFloat(2000), PyFloat(2000)>>),
      PyList(<<PyFloat(1025), PyFloat(987), PyFloat(2025), PyFloat(1987)>>) }

\* ttl_days of the writer
TtlDaysChoices == {NoTtl, 1, 30}

\* the envelopes handed to the writer
Envelopes ==
    { [event_id |-> PyStr("id"), camera_id |-> PyStr(c),
       producer |-> PyStr(PRODUCER_VERSION),
       payload |-> [ts_ms |-> PyInt(1234), type |-> PyStr("weapon"),
                    label |-> PyStr("gun"), conf |-> PyFloat(cf),
                    bbox |-> bb, extras |-> ex]] :
        c \in EventCameras, cf \in EventConfs, bb \in BboxChoices,
        ex \in ExtrasChoices }

InitItem ==
    /\ ddb \in [event : Envelopes, ttl_days : TtlDaysChoices,
                 done : {FALSE}, item : {PyDict(<<>>, <<>>)}]
    /\ eid = <<>>
    /\ s3 = <<>>
    /\ DetIdle
    /\ MiscIdle
    /\ PubIdle
    /\ FsIdle
    /\ AppIdle

\* item = self._prepare_item(event)
PrepareItemCall ==
    /\ ~ddb.done
    /\ ddb' = [ddb EXCEPT !.done = TRUE,
                          !.item = PrepareItem(ddb.event, ddb.ttl_days)]
    /\ UNCHANGED <<eid, s3, detVars, miscVars, fsVars,
                   pubVars, appVars>>

NextItem == PrepareItemCall

SpecItem == InitItem /\ [][NextItem]_vars

\* C28: the item _prepare_item builds holds no float at any depth, and with
\* its Decimals read as floats again it is the flattened envelope: keys,
\* structure and the other values are as they were
C28_NoRawFloatInItem ==
    ddb.done
        => /\ ~HoldsFloat(ddb.item)
           /\ ConvertDecimalToFloat(ddb.item)
                  = FlattenedItem(ddb.event, ddb.ttl_days)

\* an envelope with floats in conf, in bbox and inside nested dicts and
\* lists of extras: the innermost one has become a Decimal
C28_Witness ==
    /\ ddb.done
    /\ ddb.event.payload.extras = ExtrasNested
    /\ HoldsFloat(FlattenedItem(ddb.event, ddb.ttl_days))
    /\ ~HoldsFloat(ddb.item)
    /\ ddb.item.vals[7] = PyDecimal(ddb.event.payload.conf.v)
    /\ ddb.item.vals[8].items[1] = PyDecimal(ddb.event.payload.bbox.items[1].v)
    /\ ddb.item.vals[9].vals[1].vals[1].items[2].vals[1] = PyDecimal(2)


(***************************************************************************)
(* SpecSnapshot: S3Snapshot.save called again and again on one publisher.  *)
(***************************************************************************)
\* the prefix argument: a path and the slashes that trail it
PrefixChoices == { [path |-> "snapshots", slashes |-> n] : n \in {0, 1} }

\* prefix.rstrip('/')
RStripSlashes(prefix) == [prefix EXCEPT !.slashes = 0]

\* the text of a prefix
RECURSIVE Slashes(_)
Slashes(n) == IF n = 0 THEN "" ELSE "/" \o Slashes(n - 1)
PrefixText(prefix) == prefix.path \o Slashes(prefix.slashes)

\* S3Snapshot.__init__
S3New(prefix) ==
    [prefix |-> RStripSlashes(prefix),
     metrics |-> [saved |-> 0, failed |-> 0, bytes_uploaded |-> 0],
     calls |-> <<>>]

\* _generate_key
GenerateKey(s, camera_id, ts_ms) ==
    PrefixText(s.prefix) \o "/" \o camera_id \o "/" \o ToString(ts_ms)
        \o ".jpg"

\* what can happen inside save: cv2.imencode returns success = False or
\* raises, put_object raises a ClientError or another exception, or the
\* upload succeeds
SaveOutcomes == {"encode_false", "encode_raises", "client_error",
                 "exception", "uploaded"}

\* sizes of the encoded image, in bytes
ImageSizes == {100, 2000}

\* the return value None, and a returned key
ReturnsNone == [none |-> TRUE, key |-> ""]
ReturnsKey(key) == [none |-> FALSE, key |-> key]

\* a save that does not count an image it could not encode
S3SaveForgetsEncoding(s, camera_id, ts_ms, outcome, image_size) ==
    LET key == GenerateKey(s, camera_id, ts_ms)
        after == IF outcome = "uploaded"
                 THEN [s.metrics EXCEPT !.saved = @ + 1,
                                        !.bytes_uploaded = @ + image_size]
                 ELSE IF outcome = "encode_false" THEN s.metrics
                 ELSE [s.metrics EXCEPT !.failed = @ + 1]
        call == [camera_id |-> camera_id, ts_ms |-> ts_ms,
                 outcome |-> outcome, before |-> s.metrics, after |-> after,
                 raised |-> FALSE,
                 ret |-> IF outcome = "uploaded" THEN ReturnsKey(key)
                         ELSE ReturnsNone]
    IN  [s EXCEPT !.metrics = after, !.calls = Append(@, call)]

\* S3Snapshot.save: every failure is caught inside the method, counted in
\* failed and answered with None; the call is noted with the metrics
\* before and after it
S3Save(s, camera_id, ts_ms, outcome, image_size) ==
    LET key == GenerateKey(s, camera_id, ts_ms)
        after == IF outcome = "uploaded"
                 THEN [s.metrics EXCEPT !.saved = @ + 1,
                                        !.bytes_uploaded = @ + image_size]
                 ELSE [s.metrics EXCEPT !.failed = @ + 1]
        call == [camera_id |-> camera_id, ts_ms |-> ts_ms,
                 outcome |-> outcome, before |-> s.metrics, after |-> after,
                 raised |-> FALSE,
                 ret |-> IF outcome = "uploaded" THEN ReturnsKey(key)
                         ELSE ReturnsNone]
    IN  [s EXCEPT !.metrics = after, !.calls = Append(@, call)]

\* save calls in one behaviour
MaxSaves == 3

\* the timestamp of the n-th frame
FrameTs(n) == 1000 * n

InitSnapshot ==
    /\ s3 \in { S3New(p) : p \in PrefixChoices }
    /\ eid = <<>>
    /\ ddb = <<>>
    /\ DetIdle
    /\ MiscIdle
    /\ PubIdle
    /\ FsIdle
    /\ AppIdle

\* key = publisher.save(frame, camera_id, ts_ms)
SaveCall ==
    /\ Len(s3.calls) < MaxSaves
    /\ \E c \in EventCameras, o \in SaveOutcomes, size \in ImageSizes :
          /\ o # "uploaded" => size = 100
          /\ s3' = S3Save(s3, c, FrameTs(Len(s3.calls) + 1), o, size)
    /\ UNCHANGED <<eid, ddb, detVars, miscVars, fsVars,
                   pubVars, appVars>>

NextSnapshot == SaveCall

SpecSnapshot == InitSnapshot /\ [][NextSnapshot]_vars

\* C29: no save call raises; a call whose encoding or upload failed returns
\* None, adds one to failed and leaves saved and bytes_uploaded alone; a
\* successful call returns prefix/camera_id/ts_ms.jpg and adds one to saved;
\* saved + failed is the number of calls
C29_SaveCountsEveryCall ==
    /\ \A i \in 1..Len(s3.calls) :
          LET call == s3.calls[i]
          IN  /\ ~call.raised
              /\ call.outcome # "uploaded"
                    => /\ call.ret.none
                       /\ call.after.failed = call.before.failed + 1
                       /\ call.after.saved = call.before.saved
                       /\ call.after.bytes_uploaded
                              = call.before.bytes_uploaded
              /\ call.outcome = "uploaded"
                    => /\ ~call.ret.none
                       /\ call.ret.key = s3.prefix.path \o "/" \o call.camera_id
                              \o "/" \o ToString(call.ts_ms) \o ".jpg"
                       /\ call.after.saved = call.before.saved + 1
                       /\ call.after.failed = call.before.failed
    /\ s3.metrics.saved + s3.metrics.failed = Len(s3.calls)

\* an encoding failure, an upload failure and a success, in that order
C29_Witness ==
    /\ Len(s3.calls) = 3
    /\ s3.calls[1].outcome = "encode_false" /\ s3.calls[1].ret.none
    /\ s3.calls[2].outcome = "client_error" /\ s3.calls[2].ret.none
    /\ s3.calls[3].outcome = "uploaded"
    /\ s3.calls[3].ret.key = "snapshots/cam-a/3000.jpg"
    /\ s3.metrics.saved = 1
    /\ s3.metrics.failed = 2


(***************************************************************************)
(* The order in which a worker's events reach the event-stream publisher   *)
(* (SpecApp).                                                              *)
(***************************************************************************)
\* the events of camera c that the publisher holds in its buffer, oldest
\* first, by the frame they came from
RECURSIVE BufferedFramesFrom(_, _)
BufferedFramesFrom(c, i) ==
    IF i > Len(kds_buffer) THEN <<>>
    ELSE IF kds_buffer[i].camera = c
    THEN <<kds_buffer[i].seq>> \o BufferedFramesFrom(c, i + 1)
    ELSE BufferedFramesFrom(c, i + 1)

\* C30: every event a worker's detectors returned for a frame and the
\* worker passed to put_event under its camera id has been enqueued by the
\* publisher, and the events of one camera lie in the buffer in the order
\* of their frames.
C30_FrameEventsEnqueuedInOrder ==
    /\ \A ev \in kds_submitted : ev \in kds_accepted
    /\ \A c \in Cameras :
          LET frames == BufferedFramesFrom(c, 1)
          IN  \A i, j \in 1..Len(frames) : i < j => frames[i] < frames[j]


(***************************************************************************)
(* SpecChain: one worker's loop body from _run_detectors to                *)
(* _save_snapshots, frame after frame, with the event-stream publisher and *)
(* the snapshot publisher configured (app.py).                             *)
(***************************************************************************)
\* what detector.detect(frame, ts_ms) does: it raises, it returns an empty
\* list, or it returns one event dict
DetectOutcomes == {"raises", "nothing", "event"}

\* the detectors of the worker's chain
ChainLength == 2

\* the outcomes of the chain's detectors for one frame
ChainOutcomes == [1..ChainLength -> DetectOutcomes]

\* _run_detectors from the i-th detector on: the events of the detectors
\* that returned some, in chain order (an event is named by its detector),
\* and the number of errors logged; an exception of one detector is caught
\* inside the loop and the loop goes on with the next detector
RECURSIVE RunDetectorsFrom(_, _)
RunDetectorsFrom(outcomes, i) ==
    IF i > ChainLength THEN [all_events |-> <<>>, logged |-> 0]
    ELSE LET rest == RunDetectorsFrom(outcomes, i + 1)
         IN  CASE outcomes[i] = "raises" ->
                    [rest EXCEPT !.logged = @ + 1]
               [] outcomes[i] = "nothing" -> rest
               [] outcomes[i] = "event" ->
                    [rest EXCEPT !.all_events = <<i>> \o @]

\* _run_detectors
RunDetectors(outcomes) == RunDetectorsFrom(outcomes, 1)

\* _publish_events, the kds branch: the events handed to put_event.  The
\* dict {camera_id, payload} makes put_event raise KeyError, which ends the
\* loop over the events in the except clause
PublishEventsPutCalls(events) ==
    IF events = <<>> THEN <<>> ELSE <<Head(events)>>

\* no frame has been processed
ChainNew == [s3 |-> S3New([path |-> "snapshots", slashes |-> 0]),
             frames |-> <<>>]

\* frames one behaviour processes
MaxChainFrames == 2

InitChain ==
    /\ ch = ChainNew
    /\ io = <<>>
    /\ cmp = <<>>
    /\ alive = [c \in Cameras |-> 0]
    /\ DetIdle
    /\ SinkIdle
    /\ PubIdle
    /\ FsIdle
    /\ AppIdle

\* one iteration of the loop of _run for a frame read_frame returned:
\* _run_detectors, the events_total loop, _publish_events, _save_snapshots;
\* _save_snapshots calls save_with_bbox only when there are events
ProcessChainFrame ==
    /\ Len(ch.frames) < MaxChainFrames
    /\ \E outcomes \in ChainOutcomes, o \in SaveOutcomes :
          LET n == Len(ch.frames) + 1
              run == RunDetectors(outcomes)
              saves == run.all_events # <<>>
              after == IF saves
                       THEN S3Save(ch.s3, CameraOrder[1], FrameTs(n), o, 100)
                       ELSE ch.s3
              frame == [n |-> n, outcomes |-> outcomes,
                        events |-> run.all_events,
                        logged |-> run.logged,
                        put_calls |-> PublishEventsPutCalls(run.all_events),
                        save_calls |-> IF saves THEN 1 ELSE 0,
                        saved |-> after.metrics.saved - ch.s3.metrics.saved,
                        propagated |-> FALSE]
          IN  /\ ~saves => o = "uploaded"
              /\ ch' = [s3 |-> after, frames |-> Append(ch.frames, frame)]
    /\ UNCHANGED <<io, cmp, alive, detVars, sinkVars, fsVars, pubVars, appVars>>

NextChain == ProcessChainFrame

SpecChain == InitChain /\ [][NextChain]_vars

IsHealthy(s) ==
    /\ s.connection_state = "connected"
    /\ s.consecutive_errors < s.max_consecutive_errors

\* C33: when read_frame has returned a frame the connection state is
\* connected and is_healthy() is true, also for the first frame returned
\* after a URL refresh.
C33_FrameImpliesConnected ==
    (last.called /\ last.result = "frame") => IsHealthy(fs)

\* C34: once the gauge kvs_hls_connection_state has a sample for the camera,
\* it equals the code of the frame source's connection state.
C34_GaugeFollowsState ==
    fs.state_gauge # NoGauge
        => fs.state_gauge = StateCode(fs.connection_state)

\* SpecCounting: the frame source with max_consecutive_errors 1 or 2.  An
\* open decoder goes with a counter of 0 (_open_stream resets it), so that a
\* failed capture.read() is the failure that reaches the maximum only when
\* the maximum is 1
CountingMaxErrors == {1, 2}

InitCounting ==
    /\ PubIdle
    /\ AuxIdle
    /\ AppIdle
    /\ \E session \in SessionSecondsChoices, m \in CountingMaxErrors :
           fs = FsNew(session, m)
    /\ now = 0
    /\ last = NoCall
    /\ fail_streak = 0
    /\ fatal_seen = FALSE
    /\ stop_called = FALSE

SpecCounting == InitCounting /\ [][NextFS]_vars

\* C37: a read_frame call whose capture.read() failed adds exactly one to
\* read_errors_total and exactly one to the consecutive-error counter, also
\* when that failure reaches max_consecutive_errors and the call raises.
C37_FailedReadCountsOnce ==
    (last.called /\ last.read_failed)
        => /\ last.read_errors = 1
           /\ last.handles - last.handles_at_read = 1

CallsOfBatch(b) == { i \in 1..Len(kds_calls) : kds_calls[i].batch = b }

\* the records of the buffer
Buffered == { kds_buffer[i] : i \in 1..Len(kds_buffer) }

\* C35: the sending of every flushed batch has ended with true or false
\* after at most max_retries + 1 put_records calls, whatever the service
\* answered; a retry carries no more records than the attempt before it;
\* and no record handed to put_records is in the buffer again.
C35_RetriesAreBounded ==
    /\ \A b \in 1..BatchesIn(kds_calls) :
          Cardinality(CallsOfBatch(b)) <= kds_cfg.max_retries + 1
    /\ \A i \in 1..Len(kds_calls) :
          /\ kds_calls[i].attempt <= kds_cfg.max_retries
          /\ \A j \in 1..Len(kds_calls[i].records) :
                kds_calls[i].records[j] \notin Buffered
          /\ IF i < Len(kds_calls) /\ kds_calls[i + 1].batch = kds_calls[i].batch
             THEN /\ kds_calls[i].ret = "running"
                  /\ kds_calls[i + 1].attempt = kds_calls[i].attempt + 1
                  /\ Len(kds_calls[i + 1].records) <= Len(kds_calls[i].records)
             ELSE kds_calls[i].ret \in {"true", "false"}

\* a batch of two records throttled on each of its max_retries + 1 = 3
\* attempts: flush has returned false and the buffer is empty
C35_Witness ==
    /\ kds_cfg.max_retries = 2
    /\ Len(kds_calls) = 3
    /\ \A i \in 1..3 : /\ kds_calls[i].batch = 1
                        /\ kds_calls[i].answer = "throttle"
                        /\ Len(kds_calls[i].records) = 2
    /\ kds_calls[3].ret = "false"
    /\ kds_buffer = <<>>


(***************************************************************************)
(* SpecIou: iou and calculate_iou on boxes with small integer coordinates  *)
(***************************************************************************)
\* the coordinates of the boxes
Coords == 0..3

\* every [x1, y1, x2, y2] over the coordinates: well-formed boxes, boxes of
\* zero area, boxes with inverted corners
CoordBoxes == [1..4 -> Coords]

\* the unit squares a box covers, each named by its lower left corner; none
\* for a box of zero area or with inverted corners
CellsOf(box) ==
    { <<x, y>> : x \in box[1]..(box[3] - 1), y \in box[2]..(box[4] - 1) }

WellFormed(box) == box[1] < box[3] /\ box[2] < box[4]

\* the x ranges and the y ranges of two boxes overlap in more than a point
RangesOverlap(a, b) ==
    /\ Max(a[1], b[1]) < Min(a[3], b[3])
    /\ Max(a[2], b[2]) < Min(a[4], b[4])

\* the quotients p and q are the same number
SameQuotient(p, q) == p[1] * q[2] = q[1] * p[2]

InitIou ==
    /\ \E a \in CoordBoxes, b \in CoordBoxes :
          io = [pc |-> "args", box1 |-> a, box2 |-> b]
    /\ ch = <<>>
    /\ cmp = <<>>
    /\ alive = [c \in Cameras |-> 0]
    /\ DetIdle
    /\ SinkIdle
    /\ PubIdle
    /\ FsIdle
    /\ AppIdle

\* both functions are called with the two boxes, in either order
IouCalls ==
    /\ io.pc = "args"
    /\ io' = [pc |-> "done", box1 |-> io.box1, box2 |-> io.box2,
               iou |-> Iou(io.box1, io.box2),
               iou_swapped |-> Iou(io.box2, io.box1),
               calculate_iou |-> CalculateIou(io.box1, io.box2),
               calculate_iou_swapped |-> CalculateIou(io.box2, io.box1)]
    /\ UNCHANGED <<ch, cmp, alive, detVars, sinkVars, fsVars, pubVars, appVars>>

NextIou == IouCalls

SpecIou == InitIou /\ [][NextIou]_vars

\* C32: for boxes with integer coordinates, iou of two well-formed boxes is
\* the area of their intersection over the area of their union, 1 for two
\* identical well-formed boxes; it is 0 when the x or y ranges are disjoint
\* or only touch and when a box has zero area or inverted corners; and iou
\* and calculate_iou return the same value, in either order of the boxes.
C32_IouIsAreaQuotient ==
    io.pc = "done"
        => LET a == io.box1
               b == io.box2
           IN  /\ (WellFormed(a) /\ WellFormed(b))
                     => SameQuotient(io.iou,
                            <<Cardinality(CellsOf(a) \cap CellsOf(b)),
                              Cardinality(CellsOf(a) \cup CellsOf(b))>>)
               /\ (WellFormed(a) /\ a = b) => io.iou = <<io.iou[2], io.iou[2]>>
               /\ (~WellFormed(a) \/ ~WellFormed(b) \/ ~RangesOverlap(a, b))
                     => io.iou[1] = 0
               /\ io.iou[2] > 0
               /\ io.calculate_iou = io.iou
               /\ io.iou_swapped = io.iou
               /\ io.calculate_iou_swapped = io.iou

\* two boxes of area 4 that share one unit square: 1 / 7
C32_Witness ==
    /\ io.pc = "done"
    /\ io.box1 = <<0, 0, 2, 2>>
    /\ io.box2 = <<1, 1, 3, 3>>
    /\ io.iou = <<1, 7>>
    /\ io.calculate_iou_swapped = <<1, 7>>


(***************************************************************************)
(* SpecPaths: the two temporal-confirmation paths of WeaponDetector.process *)
(* fed the same detections of one camera, with the detector's defaults     *)
(***************************************************************************)
\* detections one behaviour feeds
MaxPathCalls == 3

\* configure: TemporalBuffer(maxlen=temporal_window) and
\* TemporalConfirmationHelper(window_frames=temporal_window, ...)
PathsNew ==
    [buffer |-> TemporalBufferNew(DEFAULT_TEMPORAL_WINDOW),
     helper |-> TemporalHelperNew(DEFAULT_TEMPORAL_WINDOW,
                                  DEFAULT_TEMPORAL_IOU_TENTHS,
                                  DEFAULT_TEMPORAL_MIN_CONF),
     calls |-> <<>>]

InitPaths ==
    /\ cmp = PathsNew
    /\ ch = <<>>
    /\ io = <<>>
    /\ alive = [c \in Cameras |-> 0]
    /\ DetIdle
    /\ SinkIdle
    /\ PubIdle
    /\ FsIdle
    /\ AppIdle

\* one detection of process, one per frame, taken down both branches of
\* "if self.use_temporal_buffer"
ConfirmBothWays ==
    /\ Len(cmp.calls) < MaxPathCalls
    /\ \E label \in Labels, bbox \in Boxes :
          LET n == Len(cmp.calls) + 1
              new == TemporalConfirm(cmp.buffer, label, bbox, ConfTenths,
                                     DEFAULT_TEMPORAL_MIN_CONF,
                                     DEFAULT_TEMPORAL_IOU_TENTHS, n)
              old == AddAndCheck(cmp.helper, label, bbox, ConfTenths, n)
          IN  cmp' = [buffer |-> new.buffer,
                      helper |-> old.helper,
                      calls |-> Append(cmp.calls,
                                  [label |-> label, bbox |-> bbox,
                                   temporal_confirm |-> new.result,
                                   add_and_check |-> old.result])]
    /\ UNCHANGED <<ch, io, alive, detVars, sinkVars, fsVars, pubVars, appVars>>

NextPaths == ConfirmBothWays

SpecPaths == InitPaths /\ [][NextPaths]_vars

\* C36: for every sequence of detections, temporal_confirm and the legacy
\* add_and_check, with the same window, IoU threshold and min_confirmations,
\* return the same decision at every step.
C36_PathsAgree ==
    \A i \in 1..Len(cmp.calls) :
        cmp.calls[i].temporal_confirm = cmp.calls[i].add_and_check


(***************************************************************************)
(* The dedup window of WeaponDetector.process, followed for one object.    *)
(***************************************************************************)

\* the detection det is among the detections of every frame so far
SawOnEveryFrame(det) ==
    \A f \in 1..Len(wd.frames) :
        \E i \in 1..Len(wd.frames[f]) :
            /\ wd.frames[f][i].label = det.label
            /\ wd.frames[f][i].bbox = det.bbox

\* the frames on which process returned an event for det
FramesEmitting(det) ==
    { f \in 1..Len(wd.frames) :
        \E i \in 1..Len(wd.frames[f]) :
            /\ wd.frames[f][i].label = det.label
            /\ wd.frames[f][i].bbox = det.bbox
            /\ wd.frames[f][i].emitted }

\* the first of a non-empty set of frames
FirstOf(frames) == CHOOSE c \in frames : \A f \in frames : c <= f

\* C39: for an object detected with the same label in the same grid cell on
\* every frame, after its first event at frame c the detector emits an event
\* for it exactly on the frames c, c + dedup_window, c + 2 * dedup_window,
\* ... and on no frame in between, and self._recent_detections never holds
\* more than dedup_window entries
C39_EmitsEveryDedupWindow ==
    /\ Len(wd.recent_detections) <= wd.dedup_window
    /\ (SawOnEveryFrame(Det("gun", BoxA))
            /\ FramesEmitting(Det("gun", BoxA)) # {})
           => LET c == FirstOf(FramesEmitting(Det("gun", BoxA)))
              IN  \A f \in c..Len(wd.frames) :
                      f \in FramesEmitting(Det("gun", BoxA))
                          <=> (f - c) % wd.dedup_window = 0


(***************************************************************************)
(* The gauge worker_alive                                                  *)
(***************************************************************************)

\* C40: worker_alive{camera_id} is 1 exactly while the worker's thread runs
\* and 0 once the thread has ended, whether stop() was called or the thread
\* ended on its own
C40_GaugeFollowsThread ==
    \A c \in Cameras :
        /\ ThreadAlive(c) => alive[c] = 1
        /\ w_pc[c] = "ended" => alive[c] = 0

====
